---- MODULE Spec2Model ----
(***************************************************************************)
(* ShadertoyVR (examples/cpp/qt/Example_10_Shaderfun.cpp).                 *)
(*                                                                         *)
(* State machines over one set of variables:                              *)
(*   Spec        the UI-texture hand-off between the UI thread             *)
(*               (textureUpdated handler, onTimer, onToggleUi) and the     *)
(*               render thread (perFrameRender, end of frame), with the    *)
(*               GPU completing fences in submission order;                *)
(*   SpecShader  the render thread's shader state: setup, the queued       *)
(*               tasks (shader source changed, channel changed, load       *)
(*               shader), setShaderSourceInternal, updateUniforms,         *)
(*               setChannelTextureInternal, loadTexture;                   *)
(*   SpecChannel the channels and the texture cache, with files that       *)
(*               cannot be loaded;                                         *)
(*   SpecLive    the hand-off under the scheduling the threads get;         *)
(*   SpecShutdown the hand-off of Spec followed by main's shutdown;         *)
(*   SpecTasks   the UI thread's slots queueing tasks and the render       *)
(*               thread applying them at the start of a frame.             *)
(***************************************************************************)
EXTENDS Integers, Sequences, FiniteSets, TLC

\* ------------------------------------------------------------------ bounds
\* UI texture handles are 1..MaxHandle; 0 is the empty handle.
MaxHandle == 2
\* Number of textureUpdated signals delivered in one run.
MaxPublish == 3
\* Largest lock count the UI window keeps on one texture.
MaxLocks == 2

\* Platform::elapsedSeconds() runs from 0 to MaxTime.
MaxTime == 1
\* The queued channel-change events name the channels 0..MaxChannelInput.
MaxChannelInput == 0
\* Tasks queued and not yet applied, at most.
MaxTasks == 2
\* eyePosScale and the length of position stay within 0..MaxScale, 0..MaxPosition.
MaxScale == 2
MaxPosition == 1
\* The shader list the server returns names the shaders 1..n, n <= MaxShaders.
MaxShaders == 4

Handles == 1 .. MaxHandle
\* glFenceSync returns a new sync object on every call and the program deletes
\* none. The model numbers the sync objects the program can still reach, in
\* creation order: the one in lastUiSync and those in textureTrash. A sync
\* object that is overwritten in lastUiSync without having been pushed is
\* unreachable from then on; its number passes to the sync object replacing it.
\* A new number is taken once per consumed texture, so MaxPublish numbers do.
Fences == 1 .. MaxPublish
\* static GLsync lastUiSync; has no initialiser and static storage: it starts
\* as the null sync object, NoSync.
NoSync == 0

VARIABLES
  \* ---- ShadertoyWindow, hand-off state
  uiTexture,              \* AtomicGlTexture uiTexture{ 0 }
  textureTrash,           \* std::queue<SyncPair>, front first
  textureDeleteQueue,     \* std::vector<GLuint>, guarded by textureLock
  textureLock,            \* std::mutex: "free", "render" or "ui"
  renderLock,             \* uiWindow->renderLock (endFrameLock): "free", "render" or "ui"
  uiVisible,              \* bool uiVisible{ false }
  eyePosScale,            \* float eyePosScale{ 1.0f }
  savedEyePosScale,       \* float savedEyePosScale{ 1.0f }
  \* ---- perFrameRender: statics and locals, and the render thread's position
  lastUiTexture,          \* static GLuint lastUiTexture = 0
  lastUiSync,             \* static GLsync lastUiSync
  currentUiTexture,       \* GLuint currentUiTexture
  renderTemp,             \* perFrameRender's tempTextureDeleteQueue
  pcRender,               \* "frame", "drain", "lock", "append", "endFrame", "swap"; "stopped"
  \* ---- UI thread: onTimer's local and the thread's position
  timerTemp,              \* onTimer's tempTextureDeleteQueue
  pcUi,                   \* "idle", "timerLock", "timerSwap", "timerRelease", "uiRender", "textureUpdated";
                          \* in main after app.exec(): "stop", "deleteUi", "hooks", "done"
  \* ---- QOffscreenUi and the GL context
  locks,                  \* lock count of each UI texture (lockTexture/releaseTexture)
  nextFence,              \* the next unused sync object number
  fenceDone,              \* the fences the GPU has signalled
  \* ---- history of the run (written, never read by the program)
  nPublished,             \* textureUpdated signals delivered so far
  fresh,                  \* handles published and not consumed since
  published,              \* handles published so far
  retireLog,              \* every SyncPair pushed to textureTrash, in order
  drainLog,               \* every SyncPair popped from textureTrash, in order
  releaseLog,             \* every handle onTimer released, in order
  lastFrame,              \* the state perFrameRender's UI block started from and what it did
  \* ---- ShadertoyRenderer
  canonicalUrlMap,        \* CanonicalUrlMap, legacy identifier -> canonical identifier
  textureCache,           \* TextureMap, canonical identifier -> texture
  channels,               \* Channel channels[4]: target and texture
  channelSources,         \* QUrl channelSources[4]
  vrMode,                 \* bool vrMode{ false }
  startTime,              \* float startTime{ 0.0f }
  uniformLambdas,         \* LambdaList uniformLambdas
  position,               \* vec3 position
  skybox,                 \* whether the skybox geometry is loaded
  vertexShader,           \* whether the vertex shader is compiled
  fragmentShader,         \* the source of the current fragment shader object
  shadertoyProgram,       \* ProgramPtr shadertoyProgram
  \* ---- the GL context and the platform, as the renderer sees them
  livePrograms,           \* the program objects that exist
  nextTexture,            \* the next texture name glGenTextures returns
  now,                    \* Platform::elapsedSeconds()
  pcShader,               \* "setup", then "running"; "aborted" once the thread has ended
  \* ---- history of the run
  lastBuild,              \* the setShaderSourceInternal of the latest step, if it ran one
  lastGood,               \* the program the latest successful build made
  lastRender,             \* the program the latest step drew with, if it drew
  lastChannel,            \* the setChannelTextureInternal of the latest channel-change task
  \* ---- the render thread's task queue (QRiftWindow) and the frame
  texRes,                 \* float texRes{ 1.0f }, in units of 1/80
  tasks,                  \* the tasks queued by queueRenderThreadTask, oldest first
  batch,                  \* the tasks the frame took from the queue and has not applied yet
  pcFrame,                \* "start" between frames, "tasks" while the frame applies its tasks
  lastTask,               \* the task the latest step applied, if it applied one
  \* ---- ShadertoyFetcher
  shadersToFetch,         \* QQueue<QString> shadersToFetch, front first
  currentNetworkRequests, \* int currentNetworkRequests{ 0 }
  fetchTimer,             \* QTimer timer: whether it is running
  requests,               \* the replies of qnam.get that have not finished, by what they fetch
  files,                  \* the files in CONFIG_DIR/shadertoy
  \* ---- history of the run
  dequeued                \* every shader id popped from shadersToFetch, with the
                          \* value of currentNetworkRequests at the pop

handoffVars ==
  << uiTexture, textureTrash, textureDeleteQueue, textureLock, renderLock, uiVisible,
     eyePosScale, savedEyePosScale, lastUiTexture, lastUiSync, currentUiTexture,
     renderTemp, pcRender, timerTemp, pcUi, locks, nextFence, fenceDone,
     nPublished, fresh, published, retireLog, drainLog, releaseLog, lastFrame >>

queueVars == << texRes, tasks, batch, pcFrame, lastTask >>

shaderVars ==
  << canonicalUrlMap, textureCache, channels, channelSources, vrMode, startTime,
     uniformLambdas, position, skybox, vertexShader, fragmentShader, shadertoyProgram,
     livePrograms, nextTexture, now, pcShader, lastBuild, lastGood, lastRender,
     lastChannel, queueVars >>

fetchVars ==
  << shadersToFetch, currentNetworkRequests, fetchTimer, requests, files, dequeued >>

vars == << handoffVars, shaderVars, fetchVars >>

\* ------------------------------------------------------------ helpers
\* The handles of a sequence of SyncPairs.
Firsts(q) == [i \in DOMAIN q |-> q[i][1]]

\* The elements of a sequence, as a set.
Range(q) == {q[i] : i \in DOMAIN q}

\* How often x occurs in sequence q.
Count(q, x) == Cardinality({i \in DOMAIN q : q[i] = x})

\* exchangeUiTexture(newUiTexture) on a slot holding cur:
\* <<the value returned, the value stored>>.
exchangeUiTexture(cur, new) == << cur, new >>

\* glClientWaitSync(sync, 0, 0): a zero-timeout poll, never blocks.
glClientWaitSync(sync) ==
  IF sync = NoSync THEN "GL_WAIT_FAILED"
  ELSE IF sync \in fenceDone THEN "GL_ALREADY_SIGNALED"
  ELSE "GL_TIMEOUT_EXPIRED"

\* uiWindow->lockTexture(t) and uiWindow->releaseTexture(t) on the lock counts.
lockTexture(l, t) == [l EXCEPT ![t] = @ + 1]
releaseTexture(l, t) == [l EXCEPT ![t] = IF @ > 0 THEN @ - 1 ELSE 0]

RECURSIVE releaseAll(_, _)
releaseAll(l, q) ==
  IF q = << >> THEN l ELSE releaseAll(releaseTexture(l, Head(q)), Tail(q))

\* ------------------------------------------------------------ initial state
InitHandoff ==
  /\ uiTexture = 0
  /\ textureTrash = << >>
  /\ textureDeleteQueue = << >>
  /\ textureLock = "free"
  /\ renderLock = "free"
  /\ uiVisible = FALSE
  /\ eyePosScale = 1
  /\ savedEyePosScale = 1
  /\ lastUiTexture = 0
  /\ lastUiSync = NoSync
  /\ currentUiTexture = 0
  /\ renderTemp = << >>
  /\ pcRender = "frame"
  /\ timerTemp = << >>
  /\ pcUi = "idle"
  /\ locks = [h \in Handles |-> 0]
  /\ nextFence = 1
  /\ fenceDone = {}
  /\ nPublished = 0
  /\ fresh = {}
  /\ published = {}
  /\ retireLog = << >>
  /\ drainLog = << >>
  /\ releaseLog = << >>
  /\ lastFrame = [ran |-> FALSE, visible |-> FALSE, got |-> 0, gotFresh |-> TRUE,
                  before |-> 0, after |-> 0, retired |-> << >>, drawn |-> 0]

\* ------------------------------------------------------------ UI thread
\* The UI thread runs one handler at a time (pcUi = "idle" between handlers).

\* QOffscreenUi renders a UI frame into a new FBO holding uiWindow->renderLock,
\* the lock the constructor's comment and setupOffscreenUi give the render
\* thread as endFrameLock.
uiRender_begin ==
  /\ pcUi = "idle"
  /\ nPublished < MaxPublish
  /\ renderLock = "free"
  /\ renderLock' = "ui"
  /\ pcUi' = "uiRender"
  /\ UNCHANGED << uiTexture, textureTrash, textureDeleteQueue, textureLock, uiVisible,
                  eyePosScale, savedEyePosScale, lastUiTexture, lastUiSync,
                  currentUiTexture, renderTemp, pcRender, timerTemp, locks, nextFence,
                  fenceDone, nPublished, fresh, published, retireLog, drainLog,
                  releaseLog, lastFrame >>
  /\ UNCHANGED << shaderVars, fetchVars >>

uiRender_end ==
  /\ pcUi = "uiRender"
  /\ renderLock' = "free"
  /\ pcUi' = "textureUpdated"
  /\ UNCHANGED << uiTexture, textureTrash, textureDeleteQueue, textureLock, uiVisible,
                  eyePosScale, savedEyePosScale, lastUiTexture, lastUiSync,
                  currentUiTexture, renderTemp, pcRender, timerTemp, locks, nextFence,
                  fenceDone, nPublished, fresh, published, retireLog, drainLog,
                  releaseLog, lastFrame >>
  /\ UNCHANGED << shaderVars, fetchVars >>

\* Variant of textureUpdated: the texture replaced in the slot is not released.
textureUpdated_noRelease(textureId) ==
  /\ pcUi = "textureUpdated"
  /\ locks[textureId] < MaxLocks
  /\ LET ex == exchangeUiTexture(uiTexture, textureId)
         oldTexture == ex[1]
     IN /\ uiTexture' = ex[2]
        /\ locks' = lockTexture(locks, textureId)
        /\ fresh' = (fresh \ {oldTexture}) \cup {textureId}
  /\ published' = published \cup {textureId}
  /\ nPublished' = nPublished + 1
  /\ pcUi' = "idle"
  /\ UNCHANGED << textureTrash, textureDeleteQueue, textureLock, renderLock, uiVisible,
                  eyePosScale, savedEyePosScale, lastUiTexture, lastUiSync,
                  currentUiTexture, renderTemp, pcRender, timerTemp, nextFence,
                  fenceDone, retireLog, drainLog, releaseLog, lastFrame >>
  /\ UNCHANGED << shaderVars, fetchVars >>

\* The textureUpdated handler: lock the new texture, publish it, release the
\* texture it replaced in the slot (one the render thread never consumed).
textureUpdated(textureId) ==
  /\ pcUi = "textureUpdated"
  /\ locks[textureId] < MaxLocks
  /\ LET ex == exchangeUiTexture(uiTexture, textureId)
         oldTexture == ex[1]
         locked == lockTexture(locks, textureId)
     IN /\ uiTexture' = ex[2]
        /\ locks' = IF oldTexture # 0 THEN releaseTexture(locked, oldTexture) ELSE locked
        /\ fresh' = (fresh \ {oldTexture}) \cup {textureId}
  /\ published' = published \cup {textureId}
  /\ nPublished' = nPublished + 1
  /\ pcUi' = "idle"
  /\ UNCHANGED << textureTrash, textureDeleteQueue, textureLock, renderLock, uiVisible,
                  eyePosScale, savedEyePosScale, lastUiTexture, lastUiSync,
                  currentUiTexture, renderTemp, pcRender, timerTemp, nextFence,
                  fenceDone, retireLog, drainLog, releaseLog, lastFrame >>
  /\ UNCHANGED << shaderVars, fetchVars >>

\* The timer fires (timer.start(100)) and onTimer starts.
onTimer ==
  /\ pcUi = "idle"
  /\ pcUi' = "timerLock"
  /\ UNCHANGED << uiTexture, textureTrash, textureDeleteQueue, textureLock, renderLock,
                  uiVisible, eyePosScale, savedEyePosScale, lastUiTexture, lastUiSync,
                  currentUiTexture, renderTemp, pcRender, timerTemp, locks, nextFence,
                  fenceDone, nPublished, fresh, published, retireLog, drainLog,
                  releaseLog, lastFrame >>
  /\ UNCHANGED << shaderVars, fetchVars >>

\* onTimer, Lock lock(textureLock): the UI thread waits here while the render
\* thread holds the lock.
onTimer_lock ==
  /\ pcUi = "timerLock"
  /\ textureLock = "free"
  /\ textureLock' = "ui"
  /\ pcUi' = "timerSwap"
  /\ UNCHANGED << uiTexture, textureTrash, textureDeleteQueue, renderLock, uiVisible,
                  eyePosScale, savedEyePosScale, lastUiTexture, lastUiSync,
                  currentUiTexture, renderTemp, pcRender, timerTemp, locks, nextFence,
                  fenceDone, nPublished, fresh, published, retireLog, drainLog,
                  releaseLog, lastFrame >>
  /\ UNCHANGED << shaderVars, fetchVars >>

\* Variant of onTimer_swap: the Lock is declared in the function's scope, so
\* textureLock stays held while the textures are released.
onTimer_swap_keepLock ==
  /\ pcUi = "timerSwap"
  /\ IF textureDeleteQueue # << >>
       THEN /\ timerTemp' = textureDeleteQueue
            /\ textureDeleteQueue' = timerTemp
       ELSE UNCHANGED << timerTemp, textureDeleteQueue >>
  /\ pcUi' = "timerRelease"
  /\ UNCHANGED << uiTexture, textureTrash, textureLock, renderLock, uiVisible,
                  eyePosScale, savedEyePosScale, lastUiTexture, lastUiSync,
                  currentUiTexture, renderTemp, pcRender, locks, nextFence, fenceDone,
                  nPublished, fresh, published, retireLog, drainLog, releaseLog,
                  lastFrame >>
  /\ UNCHANGED << shaderVars, fetchVars >>

\* onTimer, the scoped block: swap the shared queue out; the lock is released
\* at the end of the scope.
onTimer_swap ==
  /\ pcUi = "timerSwap"
  /\ IF textureDeleteQueue # << >>
       THEN /\ timerTemp' = textureDeleteQueue
            /\ textureDeleteQueue' = timerTemp
       ELSE UNCHANGED << timerTemp, textureDeleteQueue >>
  /\ textureLock' = "free"
  /\ pcUi' = "timerRelease"
  /\ UNCHANGED << uiTexture, textureTrash, renderLock, uiVisible, eyePosScale,
                  savedEyePosScale, lastUiTexture, lastUiSync, currentUiTexture,
                  renderTemp, pcRender, locks, nextFence, fenceDone, nPublished, fresh,
                  published, retireLog, drainLog, releaseLog, lastFrame >>
  /\ UNCHANGED << shaderVars, fetchVars >>

\* onTimer, after the lock: release every texture swapped out.
onTimer_release ==
  /\ pcUi = "timerRelease"
  /\ locks' = releaseAll(locks, timerTemp)
  /\ releaseLog' = releaseLog \o timerTemp
  /\ timerTemp' = << >>
  /\ pcUi' = "idle"
  /\ UNCHANGED << uiTexture, textureTrash, textureDeleteQueue, textureLock, renderLock,
                  uiVisible, eyePosScale, savedEyePosScale, lastUiTexture, lastUiSync,
                  currentUiTexture, renderTemp, pcRender, nextFence, fenceDone,
                  nPublished, fresh, published, retireLog, drainLog, lastFrame >>
  /\ UNCHANGED << shaderVars, fetchVars >>

\* onToggleUi (uiWindow->resume() / pause() are calls into QOffscreenUi).
onToggleUi ==
  /\ pcUi = "idle"
  /\ uiVisible' = ~uiVisible
  /\ IF uiVisible'
       THEN /\ savedEyePosScale' = eyePosScale
            /\ eyePosScale' = 0
       ELSE /\ eyePosScale' = savedEyePosScale
            /\ UNCHANGED savedEyePosScale
  /\ UNCHANGED << uiTexture, textureTrash, textureDeleteQueue, textureLock, renderLock,
                  lastUiTexture, lastUiSync, currentUiTexture, renderTemp, pcRender,
                  timerTemp, pcUi, locks, nextFence, fenceDone, nPublished, fresh,
                  published, retireLog, drainLog, releaseLog, lastFrame >>
  /\ UNCHANGED << shaderVars, fetchVars >>

\* ------------------------------------------------------------ render thread
\* Variant of consumeUiTexture: reads the slot (load) instead of exchanging it
\* with 0.
consumeUiTexture_load(slot, last, sync) ==
  LET got == slot
  IN [ slot    |-> slot,
       got     |-> got,
       current |-> IF got = 0 THEN last ELSE got,
       last    |-> IF got = 0 THEN last ELSE got,
       push    |-> IF got # 0 /\ last # 0 THEN << << last, sync >> >> ELSE << >> ]

\* Variant of consumeUiTexture: lastUiTexture = currentUiTexture is done on both
\* branches, so an empty exchange overwrites the retained handle.
consumeUiTexture_overwrite(slot, last, sync) ==
  LET got == slot
  IN [ slot    |-> 0,
       got     |-> got,
       current |-> IF got = 0 THEN last ELSE got,
       last    |-> got,
       push    |-> IF got # 0 /\ last # 0 THEN << << last, sync >> >> ELSE << >> ]

\* perFrameRender, the body of if (uiVisible) up to the compositing: what the
\* exchange returns (got), what is stored in the slot, the texture composited
\* this frame (current), the new lastUiTexture (last) and the SyncPairs pushed
\* to textureTrash (push).
consumeUiTexture(slot, last, sync) ==
  LET got == slot
  IN [ slot    |-> 0,
       got     |-> got,
       current |-> IF got = 0 THEN last ELSE got,
       last    |-> IF got = 0 THEN last ELSE got,
       push    |-> IF got # 0 /\ last # 0 THEN << << last, sync >> >> ELSE << >> ]

\* Variant of glFenceSync: no sync object is created, lastUiSync keeps its value.
glFenceSync_keep(pushed, previous) == previous

\* lastUiSync = glFenceSync(GL_SYNC_GPU_COMMANDS_COMPLETE, 0): a new, unsignalled
\* sync object. It takes a new number when the previous one was pushed to
\* textureTrash in this frame or when there was none, else the number of the
\* sync object it replaces in lastUiSync.
glFenceSync(pushed, previous) ==
  IF pushed # << >> \/ previous = NoSync THEN nextFence ELSE previous

\* Variant of perFrameRender_ui: the UI block runs also while the UI is hidden.
perFrameRender_ui_always ==
  /\ pcRender = "frame"
  /\ LET r == consumeUiTexture(uiTexture, lastUiTexture, lastUiSync)
     IN /\ uiTexture' = r.slot
        /\ currentUiTexture' = r.current
        /\ lastUiTexture' = r.last
        /\ textureTrash' = textureTrash \o r.push
        /\ retireLog' = retireLog \o r.push
        /\ IF r.current # 0
             THEN LET f == glFenceSync(r.push, lastUiSync)
                  IN /\ lastUiSync' = f
                     /\ nextFence' = IF f = nextFence THEN nextFence + 1 ELSE nextFence
                     /\ fenceDone' = fenceDone \ {f}
             ELSE UNCHANGED << lastUiSync, nextFence, fenceDone >>
        /\ fresh' = fresh \ {r.got}
        /\ lastFrame' = [ran |-> TRUE, visible |-> uiVisible, got |-> r.got,
                         gotFresh |-> (r.got = 0 \/ r.got \in fresh),
                         before |-> lastUiTexture, after |-> r.last,
                         retired |-> Firsts(r.push), drawn |-> r.current]
  /\ renderTemp' = << >>
  /\ pcRender' = "drain"
  /\ UNCHANGED << textureDeleteQueue, textureLock, renderLock, uiVisible, eyePosScale,
                  savedEyePosScale, timerTemp, pcUi, locks, nPublished,
                  published, drainLog, releaseLog >>
  /\ UNCHANGED << shaderVars, fetchVars >>

\* perFrameRender, first part: the UI block. glFenceSync is called only when
\* a texture was composited.
perFrameRender_ui ==
  /\ pcRender = "frame"
  /\ IF uiVisible
       THEN LET r == consumeUiTexture(uiTexture, lastUiTexture, lastUiSync)
            IN /\ uiTexture' = r.slot
               /\ currentUiTexture' = r.current
               /\ lastUiTexture' = r.last
               /\ textureTrash' = textureTrash \o r.push
               /\ retireLog' = retireLog \o r.push
               /\ IF r.current # 0
                    THEN LET f == glFenceSync(r.push, lastUiSync)
                         IN /\ lastUiSync' = f
                            /\ nextFence' = IF f = nextFence THEN nextFence + 1 ELSE nextFence
                            /\ fenceDone' = fenceDone \ {f}
                    ELSE UNCHANGED << lastUiSync, nextFence, fenceDone >>
               /\ fresh' = fresh \ {r.got}
               /\ lastFrame' = [ran |-> TRUE, visible |-> TRUE, got |-> r.got,
                                gotFresh |-> (r.got = 0 \/ r.got \in fresh),
                                before |-> lastUiTexture, after |-> r.last,
                                retired |-> Firsts(r.push), drawn |-> r.current]
       ELSE /\ lastFrame' = [ran |-> TRUE, visible |-> FALSE, got |-> 0,
                             gotFresh |-> TRUE, before |-> lastUiTexture,
                             after |-> lastUiTexture, retired |-> << >>, drawn |-> 0]
            /\ UNCHANGED << uiTexture, currentUiTexture, lastUiTexture, textureTrash,
                            retireLog, lastUiSync, nextFence, fenceDone, fresh >>
  /\ renderTemp' = << >>
  /\ pcRender' = "drain"
  /\ UNCHANGED << textureDeleteQueue, textureLock, renderLock, uiVisible, eyePosScale,
                  savedEyePosScale, timerTemp, pcUi, locks, nPublished,
                  published, drainLog, releaseLog >>
  /\ UNCHANGED << shaderVars, fetchVars >>

\* Variant of drainStep: the result of glClientWaitSync is ignored.
drainStep_noPoll(trash, temp) ==
  IF trash # << >>
    THEN [ trash |-> Tail(trash), temp |-> Append(temp, Head(trash)[1]),
           popped |-> << Head(trash) >>, more |-> TRUE ]
    ELSE [ trash |-> trash, temp |-> temp, popped |-> << >>, more |-> FALSE ]

\* Variant of drainStep: breaks after the first handle it moves.
drainStep_one(trash, temp) ==
  IF trash # << >> /\ temp = << >>
     /\ glClientWaitSync(Head(trash)[2]) \in {"GL_ALREADY_SIGNALED", "GL_CONDITION_SATISFIED"}
    THEN [ trash |-> Tail(trash), temp |-> Append(temp, Head(trash)[1]),
           popped |-> << Head(trash) >>, more |-> TRUE ]
    ELSE [ trash |-> trash, temp |-> temp, popped |-> << >>, more |-> FALSE ]

\* Variant of drainStep: only GL_CONDITION_SATISFIED counts as signalled.
drainStep_conditionOnly(trash, temp) ==
  IF trash # << >>
     /\ glClientWaitSync(Head(trash)[2]) \in {"GL_CONDITION_SATISFIED"}
    THEN [ trash |-> Tail(trash), temp |-> Append(temp, Head(trash)[1]),
           popped |-> << Head(trash) >>, more |-> TRUE ]
    ELSE [ trash |-> trash, temp |-> temp, popped |-> << >>, more |-> FALSE ]

\* One iteration of while (!textureTrash.empty()): poll the front fence; when it
\* is signalled move the front handle to the temporary queue and pop it,
\* otherwise break.
drainStep(trash, temp) ==
  IF trash # << >>
     /\ glClientWaitSync(Head(trash)[2]) \in {"GL_ALREADY_SIGNALED", "GL_CONDITION_SATISFIED"}
    THEN [ trash |-> Tail(trash), temp |-> Append(temp, Head(trash)[1]),
           popped |-> << Head(trash) >>, more |-> TRUE ]
    ELSE [ trash |-> trash, temp |-> temp, popped |-> << >>, more |-> FALSE ]

perFrameRender_drain ==
  /\ pcRender = "drain"
  /\ LET d == drainStep(textureTrash, renderTemp)
     IN /\ textureTrash' = d.trash
        /\ renderTemp' = d.temp
        /\ drainLog' = drainLog \o d.popped
        /\ pcRender' = IF d.more THEN "drain"
                       ELSE IF d.temp # << >> THEN "lock" ELSE "endFrame"
  /\ UNCHANGED << uiTexture, textureDeleteQueue, textureLock, renderLock, uiVisible,
                  eyePosScale, savedEyePosScale, lastUiTexture, lastUiSync,
                  currentUiTexture, timerTemp, pcUi, locks, nextFence, fenceDone,
                  nPublished, fresh, published, retireLog, releaseLog, lastFrame >>
  /\ UNCHANGED << shaderVars, fetchVars >>

\* perFrameRender, Lock lock(textureLock): the render thread waits here while
\* onTimer holds the lock.
perFrameRender_lock ==
  /\ pcRender = "lock"
  /\ textureLock = "free"
  /\ textureLock' = "render"
  /\ pcRender' = "append"
  /\ UNCHANGED << uiTexture, textureTrash, textureDeleteQueue, renderLock, uiVisible,
                  eyePosScale, savedEyePosScale, lastUiTexture, lastUiSync,
                  currentUiTexture, renderTemp, timerTemp, pcUi, locks, nextFence,
                  fenceDone, nPublished, fresh, published, retireLog, drainLog,
                  releaseLog, lastFrame >>
  /\ UNCHANGED << shaderVars, fetchVars >>

\* Variant of insertDeletable: assigns the temporary queue to the shared one.
insertDeletable_replace(queue, temp) == temp

\* Variant of insertDeletable: inserts at textureDeleteQueue.begin().
insertDeletable_front(queue, temp) == temp \o queue

\* textureDeleteQueue.insert(textureDeleteQueue.end(), temp.begin(), temp.end())
insertDeletable(queue, temp) == queue \o temp

\* perFrameRender, under the lock: append, then the scope ends.
perFrameRender_append ==
  /\ pcRender = "append"
  /\ textureDeleteQueue' = insertDeletable(textureDeleteQueue, renderTemp)
  /\ renderTemp' = << >>
  /\ textureLock' = "free"
  /\ pcRender' = "endFrame"
  /\ UNCHANGED << uiTexture, textureTrash, renderLock, uiVisible, eyePosScale,
                  savedEyePosScale, lastUiTexture, lastUiSync, currentUiTexture,
                  timerTemp, pcUi, locks, nextFence, fenceDone, nPublished, fresh,
                  published, retireLog, drainLog, releaseLog, lastFrame >>
  /\ UNCHANGED << shaderVars, fetchVars >>

\* End of the frame: the render thread takes endFrameLock (uiWindow->renderLock)
\* around the Rift's buffer swap.
endFrame_lock ==
  /\ pcRender = "endFrame"
  /\ renderLock = "free"
  /\ renderLock' = "render"
  /\ pcRender' = "swap"
  /\ UNCHANGED << uiTexture, textureTrash, textureDeleteQueue, textureLock, uiVisible,
                  eyePosScale, savedEyePosScale, lastUiTexture, lastUiSync,
                  currentUiTexture, renderTemp, timerTemp, pcUi, locks, nextFence,
                  fenceDone, nPublished, fresh, published, retireLog, drainLog,
                  releaseLog, lastFrame >>
  /\ UNCHANGED << shaderVars, fetchVars >>

endFrame_unlock ==
  /\ pcRender = "swap"
  /\ renderLock' = "free"
  /\ pcRender' = "frame"
  /\ UNCHANGED << uiTexture, textureTrash, textureDeleteQueue, textureLock, uiVisible,
                  eyePosScale, savedEyePosScale, lastUiTexture, lastUiSync,
                  currentUiTexture, renderTemp, timerTemp, pcUi, locks, nextFence,
                  fenceDone, nPublished, fresh, published, retireLog, drainLog,
                  releaseLog, lastFrame >>
  /\ UNCHANGED << shaderVars, fetchVars >>

\* ------------------------------------------------------------ GPU
\* The GPU signals fences in the order they were created (one GL context).
gpuComplete ==
  /\ \E f \in Fences :
       /\ f < nextFence
       /\ f \notin fenceDone
       /\ \A g \in 1 .. (f - 1) : g \in fenceDone
       /\ fenceDone' = fenceDone \cup {f}
  /\ UNCHANGED << uiTexture, textureTrash, textureDeleteQueue, textureLock, renderLock,
                  uiVisible, eyePosScale, savedEyePosScale, lastUiTexture, lastUiSync,
                  currentUiTexture, renderTemp, pcRender, timerTemp, pcUi, locks,
                  nextFence, nPublished, fresh, published, retireLog, drainLog,
                  releaseLog, lastFrame >>
  /\ UNCHANGED << shaderVars, fetchVars >>

\* ============================================================ ShadertoyRenderer
\* The four input channels.
Channels == 0 .. 3

\* Texture::Target values a channel's target can hold. Channel has no
\* constructor, so a default-constructed Channel (the members of channels[4],
\* and newChannel in setChannelTextureInternal) has a target that was never
\* written: "indeterminate". Reading it yields some value, chosen at the read.
Targets == {"_2D", "CubeMap"}

\* The null TexturePtr.
NoTexture == 0

\* The empty QUrl.
NoUrl == ""

\* The bundled textures initTextureCache loads, their texture names and kinds:
\* one 2D texture and one cubemap of shadertoy::TEXTURES / CUBEMAPS.
PresetTexture == "qrc:/textures/tex00.png"
PresetCubemap == "qrc:/cubemaps/cube00_0.png"
UserFile == "file:///home/user/noise.png"
\* A local file that cannot be opened or holds no image.
MissingFile == "file:///home/user/missing.png"

\* What a texture object is: the presets are loaded by oria::load2dTexture and
\* oria::loadCubemapTexture (initTextureCache), every other texture by
\* oria::load2dTexture (loadTexture).
TextureKind(texture) == IF texture = 2 THEN "CubeMap" ELSE "_2D"

\* The legacy identifiers initTextureCache registers for preset 0.
AliasesOf(url) ==
  IF url = PresetTexture
    THEN {"preset://tex/0", "preset://tex/00", "/presets/tex00.png"}
  ELSE IF url = PresetCubemap
    THEN {"preset://cube/0", "preset://cube/00", "/presets/cube00_0.png"}
  ELSE {}

\* Variant of initTextureCache: the one-digit legacy identifier is mapped to
\* the two-digit one instead of the qrc: url.
initTextureCache_chained ==
  [ textureCache |-> [u \in {PresetTexture, PresetCubemap} |->
                        IF u = PresetTexture THEN 1 ELSE 2],
    canonicalUrlMap |-> [a \in AliasesOf(PresetTexture) \cup AliasesOf(PresetCubemap) |->
                           IF a = "preset://tex/0" THEN "preset://tex/00"
                           ELSE IF a = "preset://cube/0" THEN "preset://cube/00"
                           ELSE IF a \in AliasesOf(PresetTexture) THEN PresetTexture
                           ELSE PresetCubemap],
    nextTexture |-> 3 ]

\* initTextureCache: each bundled resource is loaded into textureCache under
\* its qrc: url and its legacy identifiers are mapped to that url.
initTextureCache ==
  [ textureCache |-> [u \in {PresetTexture, PresetCubemap} |->
                        IF u = PresetTexture THEN 1 ELSE 2],
    canonicalUrlMap |-> [a \in AliasesOf(PresetTexture) \cup AliasesOf(PresetCubemap) |->
                           IF a \in AliasesOf(PresetTexture) THEN PresetTexture
                           ELSE PresetCubemap],
    nextTexture |-> 3 ]

\* The fragment sources of the runs. Of a source the model keeps what the code
\* and the GLSL compiler read from it: whether it contains "#pragma vr", the
\* uniforms it uses (the active uniforms of a program linked from it), how it
\* samples each channel after the rewrite of texture2D and textureCube to
\* texture ("2D", "Cube" or "none"), and whether it compiles and links.
Sources == {"default", "channels", "immersive", "syntaxError", "linkError"}

NoSample == [i \in Channels |-> "none"]

SourceInfo(source) ==
  CASE source = "default" ->
         [ vr |-> FALSE, uniforms |-> {"iGlobalTime", "iResolution"},
           sample |-> NoSample, compiles |-> TRUE, links |-> TRUE ]
    [] source = "channels" ->
         [ vr |-> FALSE, uniforms |-> {"iGlobalTime", "iChannel0", "iChannel1"},
           sample |-> [NoSample EXCEPT ![0] = "2D", ![1] = "Cube"],
           compiles |-> TRUE, links |-> TRUE ]
    [] source = "immersive" ->
         [ vr |-> TRUE,
           uniforms |-> {"iResolution", "iPosition", "iChannel0", "iChannel1",
                         "iChannel2", "iChannel3"},
           sample |-> [i \in Channels |-> "2D"], compiles |-> TRUE, links |-> TRUE ]
    [] source = "syntaxError" ->
         [ vr |-> TRUE, uniforms |-> {"iGlobalTime"},
           sample |-> NoSample, compiles |-> FALSE, links |-> FALSE ]
    [] OTHER ->
         [ vr |-> FALSE, uniforms |-> {"iGlobalTime", "iResolution"},
           sample |-> NoSample, compiles |-> TRUE, links |-> FALSE ]

\* shadertoy::UNIFORM_CHANNELS[i]
UNIFORM_CHANNELS(i) ==
  CASE i = 0 -> "iChannel0" [] i = 1 -> "iChannel1" [] i = 2 -> "iChannel2"
    [] OTHER -> "iChannel3"

\* The null ProgramPtr. Of a program the model keeps its name, the source it
\* was linked from and the sampler kinds its header declared.
NoHeader == [i \in Channels |-> "2D"]
NoProgram == [id |-> 0, source |-> "", header |-> NoHeader]

\* oria::getActiveUniforms(program)
getActiveUniforms(program) ==
  IF program.id = 0 THEN {} ELSE SourceInfo(program.source).uniforms

\* The renderer's fields as one record, for the functions that update several.
RendererState ==
  [ canonicalUrlMap |-> canonicalUrlMap, textureCache |-> textureCache,
    channels |-> channels, channelSources |-> channelSources, vrMode |-> vrMode,
    startTime |-> startTime, uniformLambdas |-> uniformLambdas,
    position |-> position, skybox |-> skybox, vertexShader |-> vertexShader,
    fragmentShader |-> fragmentShader, shadertoyProgram |-> shadertoyProgram,
    livePrograms |-> livePrograms, nextTexture |-> nextTexture,
    result |-> TRUE, signal |-> << "none", "" >>, thrown |-> FALSE ]

\* Variant of uniformSequence: the loop over the channels comes first.
uniformSequence_channelsFirst(program, chans) ==
  LET active == getActiveUniforms(program)
      one(name) == IF name \in active THEN << << name, -1 >> >> ELSE << >>
      chan(i) == IF UNIFORM_CHANNELS(i) \in active /\ chans[i].texture # NoTexture
                   THEN << << "iChannel", i >> >> ELSE << >>
  IN chan(0) \o chan(1) \o chan(2) \o chan(3)
       \o one("iGlobalTime") \o one("iResolution") \o one("iPosition")

\* Variant of uniformSequence: a binding action is pushed for every active
\* channel uniform, whether or not the channel has a texture.
uniformSequence_everySampler(program, chans) ==
  LET active == getActiveUniforms(program)
      one(name) == IF name \in active THEN << << name, -1 >> >> ELSE << >>
      chan(i) == IF UNIFORM_CHANNELS(i) \in active
                   THEN << << "iChannel", i >> >> ELSE << >>
  IN one("iGlobalTime") \o one("iResolution") \o one("iPosition")
       \o chan(0) \o chan(1) \o chan(2) \o chan(3)

\* updateUniforms: the update actions, in the order they are pushed. An action
\* is <<uniform, slot>>; slot is -1 for the uniforms that are no channel.
uniformSequence(program, chans) ==
  LET active == getActiveUniforms(program)
      one(name) == IF name \in active THEN << << name, -1 >> >> ELSE << >>
      chan(i) == IF UNIFORM_CHANNELS(i) \in active /\ chans[i].texture # NoTexture
                   THEN << << "iChannel", i >> >> ELSE << >>
  IN one("iGlobalTime") \o one("iResolution") \o one("iPosition")
       \o chan(0) \o chan(1) \o chan(2) \o chan(3)

\* The binding action of channel i, run on the channels chans: the GL calls it
\* makes, in order. The lambda captures i and this by value and reads
\* this->channels[i] when it runs.
\* Variant of bindChannel: without the test of the texture in the lambda.
bindChannel_noGuard(chans, i) ==
  << << "Active", i >>, << "Bind", chans[i].texture, chans[i].target >> >>

bindChannel(chans, i) ==
  IF chans[i].texture # NoTexture
    THEN << << "Active", i >>, << "Bind", chans[i].texture, chans[i].target >> >>
    ELSE << >>

\* oria::renderGeometry runs the lambdas in order. The calls they make: a
\* uniform action sets its uniform, a binding action of channel i makes the
\* calls of bindChannel on the channels as they are when it runs.
RECURSIVE runLambdas(_, _)
runLambdas(lambdas, chans) ==
  IF lambdas = << >> THEN << >>
  ELSE (IF Head(lambdas)[1] = "iChannel"
          THEN bindChannel(chans, Head(lambdas)[2])
          ELSE << << "Set", Head(lambdas)[1] >> >>)
       \o runLambdas(Tail(lambdas), chans)

\* Variant of updateUniforms: without uniformLambdas.clear().
updateUniforms_append(st) ==
  [st EXCEPT !.uniformLambdas =
     st.uniformLambdas \o uniformSequence(st.shadertoyProgram, st.channels)]

updateUniforms(st) ==
  [st EXCEPT !.uniformLambdas = uniformSequence(st.shadertoyProgram, st.channels)]

\* The sampler declarations setShaderSourceInternal puts in the header: Cube for
\* a channel whose target compares equal to CubeMap, 2D for any other. junk is
\* what reading the indeterminate targets yields.
samplerHeader(chans, junk) ==
  [i \in Channels |->
     LET target == IF chans[i].target = "indeterminate" THEN junk[i]
                   ELSE chans[i].target
     IN IF target = "CubeMap" THEN "Cube" ELSE "2D"]

\* newFragmentShader->Compile() on header + source: a sampler the source uses
\* must be declared with the kind it is sampled as.
compiles(source, header) ==
  /\ SourceInfo(source).compiles
  /\ \A i \in Channels : SourceInfo(source).sample[i] \in {"none", header[i]}

\* err.Log(): the log of the compiler or linker.
buildLog(source, header) ==
  IF compiles(source, header) THEN "link failed" ELSE "compile failed"

\* glCreateProgram: a name no existing program has.
newProgramName(live) == CHOOSE n \in 1 .. (Cardinality(live) + 1) : n \notin live

\* Variant of linkAndSwap: shadertoyProgram.swap(result) is done before
\* result->Link(), so a program that failed to link becomes current.
linkAndSwap_swapFirst(st, source, header, time) ==
  LET name == newProgramName(st.livePrograms)
      swapped == [st EXCEPT !.shadertoyProgram =
                                [id |-> name, source |-> source, header |-> header],
                            !.livePrograms = {name}]
  IN IF ~SourceInfo(source).links
       THEN [swapped EXCEPT !.result = FALSE,
                            !.signal = << "compileError", buildLog(source, header) >>]
       ELSE [updateUniforms([swapped EXCEPT !.skybox = TRUE,
                                            !.fragmentShader = source]) EXCEPT
               !.startTime = time,
               !.result = TRUE,
               !.signal = << "compileSuccess", "" >>]

\* Variant of linkAndSwap: another owner keeps the previous program alive, so
\* it is not deleted when `result` goes out of scope.
linkAndSwap_leak(st, source, header, time) ==
  IF ~SourceInfo(source).links
    THEN [st EXCEPT !.result = FALSE,
                    !.signal = << "compileError", buildLog(source, header) >>]
    ELSE LET name == newProgramName(st.livePrograms)
             swapped == [st EXCEPT
                           !.shadertoyProgram =
                               [id |-> name, source |-> source, header |-> header],
                           !.livePrograms = st.livePrograms \cup {name},
                           !.skybox = TRUE,
                           !.fragmentShader = source]
         IN [updateUniforms(swapped) EXCEPT
               !.startTime = time,
               !.result = TRUE,
               !.signal = << "compileSuccess", "" >>]

\* The try block of setShaderSourceInternal from new Program() on, for a source
\* that compiled: link, swap, load the skybox once, updateUniforms, reset the
\* time origin, emit compileSuccess; the previous program dies with `result` at
\* the end of the block. A failed link throws before the swap.
linkAndSwap(st, source, header, time) ==
  IF ~SourceInfo(source).links
    THEN [st EXCEPT !.result = FALSE,
                    !.signal = << "compileError", buildLog(source, header) >>]
    ELSE LET name == newProgramName(st.livePrograms)
             swapped == [st EXCEPT
                           !.shadertoyProgram =
                               [id |-> name, source |-> source, header |-> header],
                           !.livePrograms = {name},
                           !.skybox = TRUE,
                           !.fragmentShader = source]
         IN [updateUniforms(swapped) EXCEPT
               !.startTime = time,
               !.result = TRUE,
               !.signal = << "compileSuccess", "" >>]

\* Variant of setShaderSourceInternal: a source equal to the one of the current
\* fragment shader is not built again.
setShaderSourceInternal_skipSame(st, source, junk, time) ==
  LET header == samplerHeader(st.channels, junk)
      begun == [st EXCEPT !.position = 0,
                          !.vertexShader = TRUE,
                          !.vrMode = SourceInfo(source).vr]
  IN IF st.shadertoyProgram.id # 0 /\ st.fragmentShader = source
       THEN [st EXCEPT !.result = TRUE, !.signal = << "compileSuccess", "" >>]
     ELSE IF ~compiles(source, header)
       THEN [begun EXCEPT !.result = FALSE,
                          !.signal = << "compileError", buildLog(source, header) >>]
     ELSE linkAndSwap(begun, source, header, time)

\* setShaderSourceInternal(source) at time `time`: the result is the state
\* after, with the value returned in .result and the signal emitted in .signal.
setShaderSourceInternal(st, source, junk, time) ==
  LET header == samplerHeader(st.channels, junk)
      begun == [st EXCEPT !.position = 0,
                          !.vertexShader = TRUE,
                          !.vrMode = SourceInfo(source).vr]
  IN IF ~compiles(source, header)
       THEN [begun EXCEPT !.result = FALSE,
                          !.signal = << "compileError", buildLog(source, header) >>]
       ELSE linkAndSwap(begun, source, header, time)

\* Variant of canonicalUrl: the identifier is looked up as it is.
canonicalUrl_asIs(map, url) == url

\* loadTexture, the while loop: follow canonicalUrlMap until no entry matches.
RECURSIVE canonicalUrl(_, _)
canonicalUrl(map, url) ==
  IF url \in DOMAIN map THEN canonicalUrl(map, map[url]) ELSE url

\* textureCache[url].tex = oria::load2dTexture(v) for the bytes of a file that
\* cannot be opened or decoded (v is empty). load2dTexture is not part of this
\* file and the order of the two sides of the assignment depends on the
\* language version: the decoder throws before the cache entry exists, it
\* throws after textureCache[url] made an entry with a null texture, it
\* returns a null texture, or it returns a texture object made of no image.
LoadOutcomes == {"throws", "throwsAfterEntry", "returnsNull", "returnsTexture"}

\* textureCache with url mapped to texture.
cacheWith(cache, url, texture) ==
  [u \in DOMAIN cache \cup {url} |-> IF u = url THEN texture ELSE cache[u]]

\* Variant of loadTexture: the cache is searched for source, not for the
\* canonical url.
loadTexture_lookupSource(st, source, outcome) ==
  LET url == canonicalUrl(st.canonicalUrlMap, source)
  IN IF source \in DOMAIN st.textureCache
       THEN [st |-> st, texture |-> st.textureCache[url], thrown |-> FALSE]
     ELSE IF source = MissingFile /\ outcome = "throws"
       THEN [st |-> st, texture |-> NoTexture, thrown |-> TRUE]
     ELSE IF source = MissingFile /\ outcome \in {"throwsAfterEntry", "returnsNull"}
       THEN [st |-> [st EXCEPT !.textureCache = cacheWith(st.textureCache, url, NoTexture)],
             texture |-> NoTexture, thrown |-> (outcome = "throwsAfterEntry")]
     ELSE [st |-> [st EXCEPT
                     !.textureCache = cacheWith(st.textureCache, url, st.nextTexture),
                     !.nextTexture = st.nextTexture + 1],
           texture |-> st.nextTexture, thrown |-> FALSE]

\* loadTexture(source): the texture of the canonical url, loaded from the local
\* file and entered in the cache when the cache has none. outcome is what the
\* load of an unreadable file does. The result is the state after, the texture
\* returned and whether an exception left the function.
loadTexture(st, source, outcome) ==
  LET url == canonicalUrl(st.canonicalUrlMap, source)
  IN IF url \in DOMAIN st.textureCache
       THEN [st |-> st, texture |-> st.textureCache[url], thrown |-> FALSE]
     ELSE IF source = MissingFile /\ outcome = "throws"
       THEN [st |-> st, texture |-> NoTexture, thrown |-> TRUE]
     ELSE IF source = MissingFile /\ outcome \in {"throwsAfterEntry", "returnsNull"}
       THEN [st |-> [st EXCEPT !.textureCache = cacheWith(st.textureCache, url, NoTexture)],
             texture |-> NoTexture, thrown |-> (outcome = "throwsAfterEntry")]
     ELSE [st |-> [st EXCEPT
                     !.textureCache = cacheWith(st.textureCache, url, st.nextTexture),
                     !.nextTexture = st.nextTexture + 1],
           texture |-> st.nextTexture, thrown |-> FALSE]

\* shadertoy::ChannelInputType
ChannelInputTypes == {"TEXTURE", "CUBEMAP", "VIDEO", "AUDIO"}

\* Variant of setChannelTextureInternal: without the comparison with
\* channelSources[channel] at its head.
setChannelTextureInternal_noGuard(st, channel, type, textureSource, outcome) ==
  LET noted == [st EXCEPT !.channelSources[channel] = textureSource]
  IN IF textureSource = NoUrl
       THEN [noted EXCEPT !.channels[channel] =
                            [target |-> "_2D", texture |-> NoTexture]]
     ELSE IF type \in {"TEXTURE", "CUBEMAP"}
       THEN LET loaded == loadTexture(noted, textureSource, outcome)
            IN IF loaded.thrown
                 THEN [loaded.st EXCEPT !.thrown = TRUE]
                 ELSE [loaded.st EXCEPT !.channels[channel] =
                         [target |-> IF type = "TEXTURE" THEN "_2D" ELSE "CubeMap",
                          texture |-> loaded.texture]]
     ELSE [noted EXCEPT !.channels[channel] =
                          [target |-> "indeterminate", texture |-> NoTexture]]

\* Variant of setChannelTextureInternal: the empty identifier resets the
\* texture and leaves the target as it was.
setChannelTextureInternal_keepTarget(st, channel, type, textureSource, outcome) ==
  IF textureSource = st.channelSources[channel] THEN st
  ELSE
    LET noted == [st EXCEPT !.channelSources[channel] = textureSource]
    IN IF textureSource = NoUrl
         THEN [noted EXCEPT !.channels[channel].texture = NoTexture]
       ELSE IF type \in {"TEXTURE", "CUBEMAP"}
         THEN LET loaded == loadTexture(noted, textureSource, outcome)
              IN IF loaded.thrown
                   THEN [loaded.st EXCEPT !.thrown = TRUE]
                   ELSE [loaded.st EXCEPT !.channels[channel] =
                           [target |-> IF type = "TEXTURE" THEN "_2D" ELSE "CubeMap",
                            texture |-> loaded.texture]]
       ELSE [noted EXCEPT !.channels[channel] =
                            [target |-> "indeterminate", texture |-> NoTexture]]

\* Variant of setChannelTextureInternal: the cases VIDEO and AUDIO load the
\* identifier as the case TEXTURE does.
setChannelTextureInternal_loadAny(st, channel, type, textureSource, outcome) ==
  IF textureSource = st.channelSources[channel] THEN st
  ELSE
    LET noted == [st EXCEPT !.channelSources[channel] = textureSource]
    IN IF textureSource = NoUrl
         THEN [noted EXCEPT !.channels[channel] =
                              [target |-> "_2D", texture |-> NoTexture]]
       ELSE LET loaded == loadTexture(noted, textureSource, outcome)
            IN IF loaded.thrown
                 THEN [loaded.st EXCEPT !.thrown = TRUE]
                 ELSE [loaded.st EXCEPT !.channels[channel] =
                         [target |-> IF type = "CUBEMAP" THEN "CubeMap" ELSE "_2D",
                          texture |-> loaded.texture]]

\* setChannelTextureInternal(channel, type, textureSource). An exception of
\* loadTexture leaves the function after channelSources was written and before
\* channels is.
setChannelTextureInternal(st, channel, type, textureSource, outcome) ==
  IF textureSource = st.channelSources[channel] THEN st
  ELSE
    LET noted == [st EXCEPT !.channelSources[channel] = textureSource]
    IN IF textureSource = NoUrl
         THEN [noted EXCEPT !.channels[channel] =
                              [target |-> "_2D", texture |-> NoTexture]]
       ELSE IF type \in {"TEXTURE", "CUBEMAP"}
         THEN LET loaded == loadTexture(noted, textureSource, outcome)
              IN IF loaded.thrown
                   THEN [loaded.st EXCEPT !.thrown = TRUE]
                   ELSE [loaded.st EXCEPT !.channels[channel] =
                           [target |-> IF type = "TEXTURE" THEN "_2D" ELSE "CubeMap",
                            texture |-> loaded.texture]]
       ELSE [noted EXCEPT !.channels[channel] =
                            [target |-> "indeterminate", texture |-> NoTexture]]

\* The loop of setShaderInternal: the four channels in order. An exception of
\* loadTexture leaves the loop, and the later channels are not set.
setShaderChannels(st, shader, outcome) ==
  LET set(s, i) == IF s.thrown THEN s
                   ELSE setChannelTextureInternal(s, i, shader.channelTypes[i],
                                                  shader.channelTextures[i], outcome)
  IN set(set(set(set(st, 0), 1), 2), 3)

\* setShaderInternal(shader): the four channels in order, then the source.
\* outcome is what the load of an unreadable file does; an exception leaves
\* the function before the source is set.
setShaderInternal(st, shader, outcome, junk, time) ==
  LET chans == setShaderChannels(st, shader, outcome)
  IN IF chans.thrown THEN chans
     ELSE setShaderSourceInternal(chans, shader.fragmentSource, junk, time)

\* The shader documents loaded in the runs (shadertoy::PRESETS and user files):
\* fragment source and four channel descriptors.
NoChannelTypes == [i \in Channels |-> "TEXTURE"]
NoChannelTextures == [i \in Channels |-> NoUrl]

Shaders ==
  { [ fragmentSource |-> "default", channelTypes |-> NoChannelTypes,
      channelTextures |-> NoChannelTextures ],
    [ fragmentSource |-> "channels",
      channelTypes |-> [NoChannelTypes EXCEPT ![1] = "CUBEMAP"],
      channelTextures |-> [NoChannelTextures EXCEPT ![0] = "preset://tex/00",
                                                    ![1] = PresetCubemap] ],
    [ fragmentSource |-> "immersive", channelTypes |-> NoChannelTypes,
      channelTextures |-> [NoChannelTextures EXCEPT ![0] = PresetTexture,
                                                    ![2] = UserFile] ],
    [ fragmentSource |-> "syntaxError",
      channelTypes |-> [NoChannelTypes EXCEPT ![0] = "CUBEMAP"],
      channelTextures |-> [NoChannelTextures EXCEPT ![0] = PresetCubemap] ] }

\* A shader document without a first channel whose second channel names a
\* file that cannot be read.
BrokenShader ==
  [ fragmentSource |-> "channels",
    channelTypes |-> NoChannelTypes,
    channelTextures |-> [NoChannelTextures EXCEPT ![1] = MissingFile] ]

\* What the loads of the files a shader document names can do.
ShaderLoadOutcomes(shader) ==
  IF \E i \in Channels : shader.channelTextures[i] = MissingFile
    THEN LoadOutcomes ELSE {"returnsTexture"}

\* The identifiers the channel-change events of the runs carry.
ChannelUrls == {NoUrl, "preset://tex/00", PresetCubemap, "/presets/cube00_0.png"}

\* What reading the indeterminate targets of chans can yield, in a build of
\* source. The declaration of a sampler the source does not use has no effect
\* on the build, so one value stands for both where the channel is not sampled.
JunkTargets(chans, source) ==
  { junk \in [Channels -> Targets] :
      \A i \in Channels :
        (chans[i].target # "indeterminate" \/ SourceInfo(source).sample[i] = "none")
          => junk[i] = "_2D" }

\* The step that led to the state ran no build; it drew no frame.
NoBuild == [ran |-> FALSE, source |-> "", same |-> FALSE, ok |-> FALSE,
            signal |-> << "none", "" >>]
NoRender == [ran |-> FALSE, program |-> 0, calls |-> << >>]
\* The step ran no channel-change task. Of a channel-change task: the
\* arguments of setChannelTextureInternal, whether textureSource was the
\* channel's recorded source, the texture the channel held, whether the cache
\* had an entry for the identifier, and whether an exception left the task.
NoChannel == [ran |-> FALSE, channel |-> 0, type |-> "TEXTURE", source |-> NoUrl,
              same |-> FALSE, held |-> NoTexture, cached |-> FALSE, thrown |-> FALSE]

\* texRes is kept in units of 1/80: 0.1f is MinRes and 1.0f is MaxRes, and the
\* products of the runs are whole numbers of units.
MinRes == 8
MaxRes == 80

\* A task: the lambda handed to queueRenderThreadTask with the values it
\* captured. kind tells which slot queued it.
Task(kind, channel, type, source, value) ==
  [kind |-> kind, channel |-> channel, type |-> type, source |-> source, value |-> value]

\* The step applied no task.
NoTask == [ran |-> FALSE, task |-> Task("none", 0, "TEXTURE", "", 0), thrown |-> FALSE]

\* ------------------------------------------------------------ initial state
InitShader ==
  /\ canonicalUrlMap = [u \in {} |-> NoUrl]
  /\ textureCache = [u \in {} |-> NoTexture]
  /\ channels = [i \in Channels |-> [target |-> "indeterminate", texture |-> NoTexture]]
  /\ channelSources = [i \in Channels |-> NoUrl]
  /\ vrMode = FALSE
  /\ startTime = 0
  /\ uniformLambdas = << >>
  /\ position = 0
  /\ skybox = FALSE
  /\ vertexShader = FALSE
  /\ fragmentShader = ""
  /\ shadertoyProgram = NoProgram
  /\ livePrograms = {}
  /\ nextTexture = 1
  /\ now = 0
  /\ pcShader = "setup"
  /\ lastBuild = NoBuild
  /\ lastGood = NoProgram
  /\ lastRender = NoRender
  /\ lastChannel = NoChannel
  /\ texRes = MaxRes
  /\ tasks = << >>
  /\ batch = << >>
  /\ pcFrame = "start"
  /\ lastTask = NoTask

\* ------------------------------------------------------------ ShadertoyFetcher
\* The fetcher's handlers are slots of the UI thread. The model is of the
\* build with SHADERTOY_API_KEY defined; without it fetchNetworkShaders and
\* fetchNextShader are empty. The shader list names each shader once.
ShaderIds == 1 .. MaxShaders
\* What a request fetches: the shader list, or the file of a shader.
ListRequest == << 0, "list" >>
shaderFile(nextShaderId) == << nextShaderId, "json" >>
shaderPreviewFile(nextShaderId) == << nextShaderId, "jpg" >>
ShaderFiles == ShaderIds \X {"json", "jpg"}

\* The fetcher's fields, as the handlers pass them on.
FetcherState ==
  [shadersToFetch |-> shadersToFetch, currentNetworkRequests |-> currentNetworkRequests,
   requests |-> requests, dequeued |-> dequeued]

\* fetchUrl: ++currentNetworkRequests; qnam.get(request).
fetchUrl(st, url) ==
  [st EXCEPT !.currentNetworkRequests = @ + 1, !.requests = @ \cup {url}]

\* fetchFile(url, path) is fetchUrl with a callback that writes path.
fetchFile(st, path) == fetchUrl(st, path)

\* Variant of fetchNextShader_while: without the test of currentNetworkRequests.
fetchNextShader_while_noLimit(st) ==
  st.shadersToFetch # << >>

\* The condition of fetchNextShader's loop:
\* !shadersToFetch.empty() && currentNetworkRequests <= 4.
fetchNextShader_while(st) ==
  st.shadersToFetch # << >> /\ st.currentNetworkRequests <= 4

\* The loop of fetchNextShader: the front of the queue is popped and the files
\* of the shader that do not exist are requested.
RECURSIVE fetchNextShader_loop(_)
fetchNextShader_loop(st) ==
  IF fetchNextShader_while(st)
    THEN LET nextShaderId == Head(st.shadersToFetch)
             popped == [st EXCEPT !.shadersToFetch = Tail(@),
                                  !.dequeued = Append(@, [id |-> nextShaderId,
                                                          outstanding |-> st.currentNetworkRequests])]
             withShader == IF shaderFile(nextShaderId) \notin files
                             THEN fetchUrl(popped, shaderFile(nextShaderId))
                             ELSE popped
             withPreview == IF shaderPreviewFile(nextShaderId) \notin files
                              THEN fetchFile(withShader, shaderPreviewFile(nextShaderId))
                              ELSE withShader
         IN fetchNextShader_loop(withPreview)
    ELSE st

\* The state after ShadertoyWindow's constructor: fetcher.fetchNetworkShaders()
\* has requested the shader list.
InitFetcher ==
  /\ shadersToFetch = << >>
  /\ currentNetworkRequests = 1
  /\ fetchTimer = FALSE
  /\ requests = {ListRequest}
  /\ files = {}
  /\ dequeued = << >>

\* The list request finishes (fetchUrl's finished handler, then the callback
\* of fetchNetworkShaders): the ids of the reply are queued and the timer is
\* started. cached stands for the files earlier runs left in CONFIG_DIR, which
\* the program has not looked at before.
fetchNetworkShaders_finished(shaders, cached) ==
  /\ pcUi = "idle"
  /\ ListRequest \in requests
  /\ currentNetworkRequests' = currentNetworkRequests - 1
  /\ requests' = requests \ {ListRequest}
  /\ shadersToFetch' = shadersToFetch \o shaders
  /\ fetchTimer' = TRUE
  /\ files' = cached
  /\ UNCHANGED dequeued
  /\ UNCHANGED << handoffVars, shaderVars >>

\* The timer's timeout calls fetchNextShader: the loop, then timer.stop() when
\* the queue is empty.
fetchNextShader ==
  /\ pcUi = "idle"
  /\ fetchTimer
  /\ \E st \in {fetchNextShader_loop(FetcherState)} :
       /\ shadersToFetch' = st.shadersToFetch
       /\ currentNetworkRequests' = st.currentNetworkRequests
       /\ requests' = st.requests
       /\ dequeued' = st.dequeued
       /\ fetchTimer' = IF st.shadersToFetch = << >> THEN FALSE ELSE fetchTimer
  /\ UNCHANGED files
  /\ UNCHANGED << handoffVars, shaderVars >>

\* The request of a shader's file finishes, with or without a network error:
\* --currentNetworkRequests, and the callback writes the file.
fetchUrl_finished(path) ==
  /\ pcUi = "idle"
  /\ path \in requests
  /\ path # ListRequest
  /\ currentNetworkRequests' = currentNetworkRequests - 1
  /\ requests' = requests \ {path}
  /\ files' = files \cup {path}
  /\ UNCHANGED << shadersToFetch, fetchTimer, dequeued >>
  /\ UNCHANGED << handoffVars, shaderVars >>

\* The shader lists of the runs: the first n shaders, in order.
ShaderLists == { [k \in 1 .. n |-> k] : n \in 0 .. MaxShaders }

Init == InitHandoff /\ InitShader /\ InitFetcher

\* ------------------------------------------------------------ render thread, shader state
\* The renderer's fields after a function ran.
Commit(st) ==
  /\ canonicalUrlMap' = st.canonicalUrlMap
  /\ textureCache' = st.textureCache
  /\ channels' = st.channels
  /\ channelSources' = st.channelSources
  /\ vrMode' = st.vrMode
  /\ startTime' = st.startTime
  /\ uniformLambdas' = st.uniformLambdas
  /\ position' = st.position
  /\ skybox' = st.skybox
  /\ vertexShader' = st.vertexShader
  /\ fragmentShader' = st.fragmentShader
  /\ shadertoyProgram' = st.shadertoyProgram
  /\ livePrograms' = st.livePrograms
  /\ nextTexture' = st.nextTexture

\* What the build of a step did: source is the source submitted, same tells
\* whether it is the source of the program that was current, ok and signal are
\* the value returned and the signal emitted.
BuildRecord(st, built, source) ==
  [ ran |-> TRUE,
    source |-> source,
    same |-> (st.shadertoyProgram.id # 0 /\ st.shadertoyProgram.source = source),
    ok |-> built.result,
    signal |-> built.signal ]

\* ShadertoyRenderer::setup: fill the texture cache, build the default
\* fragment shader, assert(shadertoyProgram), load the skybox.
setup ==
  /\ pcShader = "setup"
  /\ \E junk \in JunkTargets(channels, "default") :
       LET cache == initTextureCache
           st == [RendererState EXCEPT !.textureCache = cache.textureCache,
                                       !.canonicalUrlMap = cache.canonicalUrlMap,
                                       !.nextTexture = cache.nextTexture]
       IN \E built \in {setShaderSourceInternal(st, "default", junk, now)} :
          /\ Commit([built EXCEPT !.skybox = TRUE])
          /\ pcShader' = IF built.shadertoyProgram.id # 0 THEN "running" ELSE "aborted"
          /\ lastBuild' = BuildRecord(st, built, "default")
          /\ lastGood' = IF built.result THEN built.shadertoyProgram ELSE lastGood
  /\ lastRender' = NoRender
  /\ lastChannel' = NoChannel
  /\ UNCHANGED now
  /\ lastTask' = NoTask
  /\ UNCHANGED << texRes, tasks, batch, pcFrame >>
  /\ UNCHANGED << handoffVars, fetchVars >>

\* The task onShaderSourceChanged queues: setShaderSourceInternal, updateUniforms.
shaderSourceChangedTask(shaderSource) ==
  /\ pcShader = "running"
  /\ \E junk \in JunkTargets(channels, shaderSource) :
       \E built \in {setShaderSourceInternal(RendererState, shaderSource, junk, now)} :
          /\ Commit(updateUniforms(built))
          /\ lastBuild' = BuildRecord(RendererState, built, shaderSource)
          /\ lastGood' = IF built.result THEN built.shadertoyProgram ELSE lastGood
  /\ lastRender' = NoRender
  /\ lastChannel' = NoChannel
  /\ UNCHANGED << now, pcShader >>
  /\ lastTask' = NoTask
  /\ UNCHANGED << texRes, tasks, batch, pcFrame >>
  /\ UNCHANGED << handoffVars, fetchVars >>

\* The task onChannelTextureChanged queues: setChannelTextureInternal,
\* updateUniforms. An exception of loadTexture leaves the task before
\* updateUniforms; what the caller of the task does with it is not part of this
\* file: the render thread goes on with the next task or ends.
channelTextureChangedTask(channelIndex, channelType, texturePath) ==
  /\ pcShader = "running"
  /\ \E outcome \in (IF texturePath = MissingFile THEN LoadOutcomes
                      ELSE {"returnsTexture"}) :
       \E st \in {setChannelTextureInternal(RendererState, channelIndex, channelType,
                                            texturePath, outcome)} :
         /\ Commit(IF st.thrown THEN st ELSE updateUniforms(st))
         /\ pcShader' \in (IF st.thrown THEN {"running", "aborted"} ELSE {"running"})
         /\ lastChannel' = [ran |-> TRUE, channel |-> channelIndex, type |-> channelType,
                            source |-> texturePath,
                            same |-> (texturePath = channelSources[channelIndex]),
                            held |-> channels[channelIndex].texture,
                            cached |-> (canonicalUrl(canonicalUrlMap, texturePath)
                                          \in DOMAIN textureCache),
                            thrown |-> st.thrown]
  /\ lastBuild' = NoBuild
  /\ lastRender' = NoRender
  /\ UNCHANGED << now, lastGood >>
  /\ lastTask' = NoTask
  /\ UNCHANGED << texRes, tasks, batch, pcFrame >>
  /\ UNCHANGED << handoffVars, fetchVars >>

\* The task loadShader queues: setShaderInternal, updateUniforms. An exception
\* of setShaderInternal leaves the task before updateUniforms.
loadShaderTask(shader) ==
  /\ pcShader = "running"
  /\ \E outcome \in ShaderLoadOutcomes(shader) :
       LET chans == setShaderChannels(RendererState, shader, outcome)
       IN IF chans.thrown
            THEN /\ Commit(chans)
                 /\ pcShader' \in {"running", "aborted"}
                 /\ lastBuild' = NoBuild
                 /\ lastGood' = lastGood
            ELSE \E junk \in JunkTargets(chans.channels, shader.fragmentSource) :
                   \E built \in {setShaderInternal(RendererState, shader, outcome,
                                                   junk, now)} :
                     /\ Commit(updateUniforms(built))
                     /\ pcShader' = pcShader
                     /\ lastBuild' = BuildRecord(chans, built, shader.fragmentSource)
                     /\ lastGood' =
                          IF built.result THEN built.shadertoyProgram ELSE lastGood
  /\ lastRender' = NoRender
  /\ lastChannel' = NoChannel
  /\ UNCHANGED now
  /\ lastTask' = NoTask
  /\ UNCHANGED << texRes, tasks, batch, pcFrame >>
  /\ UNCHANGED << handoffVars, fetchVars >>

\* renderShadertoy: nothing is drawn without a program, else the skybox is
\* drawn with shadertoyProgram and uniformLambdas.
renderShadertoy ==
  /\ pcShader = "running"
  /\ lastRender' = [ran |-> TRUE, program |-> shadertoyProgram.id,
                    calls |-> IF shadertoyProgram.id = 0 THEN << >>
                              ELSE runLambdas(uniformLambdas, channels)]
  /\ lastChannel' = NoChannel
  /\ lastBuild' = NoBuild
  /\ UNCHANGED << canonicalUrlMap, textureCache, channels, channelSources, vrMode,
                  startTime, uniformLambdas, position, skybox, vertexShader,
                  fragmentShader, shadertoyProgram, livePrograms, nextTexture, now,
                  pcShader, lastGood >>
  /\ lastTask' = NoTask
  /\ UNCHANGED << texRes, tasks, batch, pcFrame >>
  /\ UNCHANGED << handoffVars, fetchVars >>

\* Platform::elapsedSeconds() advances.
tick ==
  /\ now < MaxTime
  /\ now' = now + 1
  /\ lastBuild' = NoBuild
  /\ lastRender' = NoRender
  /\ lastChannel' = NoChannel
  /\ UNCHANGED << canonicalUrlMap, textureCache, channels, channelSources, vrMode,
                  startTime, uniformLambdas, position, skybox, vertexShader,
                  fragmentShader, shadertoyProgram, livePrograms, nextTexture,
                  pcShader, lastGood >>
  /\ lastTask' = NoTask
  /\ UNCHANGED << texRes, tasks, batch, pcFrame >>
  /\ UNCHANGED << handoffVars, fetchVars >>

\* ------------------------------------------------------------ the task queue
\* QRiftWindow::queueRenderThreadTask(task): the task is appended to the
\* mutex-guarded queue of the render thread.
queueRenderThreadTask(queue, task) == Append(queue, task)

\* The tasks queued and not applied.
Pending == batch \o tasks

\* The steps of the UI thread's slots reset the step labels.
NoLabels ==
  /\ lastBuild' = NoBuild
  /\ lastRender' = NoRender
  /\ lastChannel' = NoChannel
  /\ lastTask' = NoTask

\* A slot changes nothing but the queue.
SlotFrame ==
  /\ NoLabels
  /\ UNCHANGED << canonicalUrlMap, textureCache, channels, channelSources, vrMode,
                  startTime, uniformLambdas, position, skybox, vertexShader,
                  fragmentShader, shadertoyProgram, livePrograms, nextTexture, now,
                  pcShader, lastGood, texRes, batch, pcFrame >>
  /\ UNCHANGED << handoffVars, fetchVars >>

\* The scale factors of the runs: num / den, or a NaN.
Scales ==
  { [num |-> 0 - 1, den |-> 1, nan |-> FALSE],
    [num |-> 4, den |-> 1, nan |-> FALSE],
    [num |-> 1, den |-> 1, nan |-> TRUE] }

\* Variant of newRes: without std::max(0.1f, ...).
newRes_noFloor(scale, res) ==
  LET product == (scale.num * res) \div scale.den
  IN IF ~scale.nan /\ product < MaxRes THEN product ELSE MaxRes

\* onModifyTextureResolution: float newRes = scale * texRes;
\* newRes = std::max(0.1f, std::min(1.0f, newRes)). std::min(a, b) is b when
\* b < a and a otherwise, std::max(a, b) is b when a < b and a otherwise; a
\* comparison with a NaN is false.
newRes(scale, res) ==
  LET product == (scale.num * res) \div scale.den
      capped == IF ~scale.nan /\ product < MaxRes THEN product ELSE MaxRes
  IN IF MinRes < capped THEN capped ELSE MinRes

\* onModifyTextureResolution(scale): texRes is read on the UI thread; the task
\* is queued when the new value differs from it.
onModifyTextureResolution(scale) ==
  /\ Len(Pending) < MaxTasks
  /\ newRes(scale, texRes) # texRes
  /\ tasks' = queueRenderThreadTask(tasks,
                Task("texRes", 0, "TEXTURE", "", newRes(scale, texRes)))
  /\ SlotFrame

\* onModifyPositionScale(scale): float newPosScale = scale * eyePosScale.
onModifyPositionScale(scale) ==
  /\ Len(Pending) < MaxTasks
  /\ scale * eyePosScale <= MaxScale
  /\ tasks' = queueRenderThreadTask(tasks,
                Task("eyePosScale", 0, "TEXTURE", "", scale * eyePosScale))
  /\ SlotFrame

onResetPositionScale ==
  /\ Len(Pending) < MaxTasks
  /\ tasks' = queueRenderThreadTask(tasks, Task("resetPosScale", 0, "TEXTURE", "", 1))
  /\ SlotFrame

\* Variant of onRestartShader: the slot writes startTime itself instead of
\* queueing the write.
onRestartShader_direct ==
  /\ Len(Pending) < MaxTasks
  /\ startTime' = now
  /\ NoLabels
  /\ UNCHANGED << canonicalUrlMap, textureCache, channels, channelSources, vrMode,
                  uniformLambdas, position, skybox, vertexShader, fragmentShader,
                  shadertoyProgram, livePrograms, nextTexture, now, pcShader, lastGood,
                  texRes, tasks, batch, pcFrame >>
  /\ UNCHANGED << handoffVars, fetchVars >>

onRestartShader ==
  /\ Len(Pending) < MaxTasks
  /\ tasks' = queueRenderThreadTask(tasks, Task("restart", 0, "TEXTURE", "", 0))
  /\ SlotFrame

\* onSixDofMotion(tr, mo): the task adds tr to position. The runs keep the
\* position within MaxPosition.
onSixDofMotion(tr) ==
  /\ Len(Pending) < MaxTasks
  /\ position + tr
       + Cardinality({k \in DOMAIN Pending : Pending[k].kind = "position"}) * tr
         <= MaxPosition
  /\ tasks' = queueRenderThreadTask(tasks, Task("position", 0, "TEXTURE", "", tr))
  /\ SlotFrame

onShaderSourceChanged(shaderSource) ==
  /\ Len(Pending) < MaxTasks
  /\ tasks' = queueRenderThreadTask(tasks, Task("shaderSource", 0, "TEXTURE", shaderSource, 0))
  /\ SlotFrame

onChannelTextureChanged(channelIndex, channelType, texturePath) ==
  /\ Len(Pending) < MaxTasks
  /\ tasks' = queueRenderThreadTask(tasks,
                Task("channelTexture", channelIndex, channelType, texturePath, 0))
  /\ SlotFrame

\* loadShader(shader): the task captures the shader document; the documents of
\* the runs differ in their fragment source, which stands for the document.
loadShader(shader) ==
  /\ Len(Pending) < MaxTasks
  /\ tasks' = queueRenderThreadTask(tasks,
                Task("loadShader", 0, "TEXTURE", shader.fragmentSource, 0))
  /\ SlotFrame

ShaderOf(source) == CHOOSE shader \in Shaders : shader.fragmentSource = source

\* The start of a frame: the render thread takes the queued tasks.
drainTasks ==
  /\ pcShader = "running"
  /\ pcFrame = "start"
  /\ batch' = tasks
  /\ tasks' = << >>
  /\ pcFrame' = "tasks"
  /\ NoLabels
  /\ UNCHANGED << canonicalUrlMap, textureCache, channels, channelSources, vrMode,
                  startTime, uniformLambdas, position, skybox, vertexShader,
                  fragmentShader, shadertoyProgram, livePrograms, nextTexture, now,
                  pcShader, lastGood, texRes >>
  /\ UNCHANGED << handoffVars, fetchVars >>

\* The frame applies the oldest task it took: the body of the lambda the slot
\* queued. The frame wraps each task, so an exception that leaves a task ends
\* that task only.
runTask ==
  /\ pcShader = "running"
  /\ pcFrame = "tasks"
  /\ batch # << >>
  /\ LET task == Head(batch)
         applied(thrown) == [ran |-> TRUE, task |-> task, thrown |-> thrown]
     IN \/ /\ task.kind = "shaderSource"
           /\ \E junk \in JunkTargets(channels, task.source) :
                \E built \in {setShaderSourceInternal(RendererState, task.source, junk, now)} :
                  /\ Commit(updateUniforms(built))
                  /\ lastBuild' = BuildRecord(RendererState, built, task.source)
                  /\ lastGood' = IF built.result THEN built.shadertoyProgram ELSE lastGood
           /\ lastChannel' = NoChannel
           /\ lastTask' = applied(FALSE)
           /\ UNCHANGED << texRes, eyePosScale >>
        \/ /\ task.kind = "channelTexture"
           /\ \E outcome \in (IF task.source = MissingFile THEN LoadOutcomes
                               ELSE {"returnsTexture"}) :
                \E st \in {setChannelTextureInternal(RendererState, task.channel, task.type,
                                                     task.source, outcome)} :
                  /\ Commit(IF st.thrown THEN st ELSE updateUniforms(st))
                  /\ lastChannel' =
                       [ran |-> TRUE, channel |-> task.channel, type |-> task.type,
                        source |-> task.source,
                        same |-> (task.source = channelSources[task.channel]),
                        held |-> channels[task.channel].texture,
                        cached |-> (canonicalUrl(canonicalUrlMap, task.source)
                                      \in DOMAIN textureCache),
                        thrown |-> st.thrown]
                  /\ lastTask' = applied(st.thrown)
           /\ lastBuild' = NoBuild
           /\ UNCHANGED << lastGood, texRes, eyePosScale >>
        \/ /\ task.kind = "loadShader"
           /\ LET shader == ShaderOf(task.source)
              IN \E outcome \in ShaderLoadOutcomes(shader) :
                   LET chans == setShaderChannels(RendererState, shader, outcome)
                   IN IF chans.thrown
                        THEN /\ Commit(chans)
                             /\ lastBuild' = NoBuild
                             /\ lastGood' = lastGood
                             /\ lastTask' = applied(TRUE)
                        ELSE \E junk \in JunkTargets(chans.channels,
                                                     shader.fragmentSource) :
                               \E built \in {setShaderInternal(RendererState, shader,
                                                               outcome, junk, now)} :
                                 /\ Commit(updateUniforms(built))
                                 /\ lastBuild' =
                                      BuildRecord(chans, built, shader.fragmentSource)
                                 /\ lastGood' = IF built.result
                                                  THEN built.shadertoyProgram
                                                  ELSE lastGood
                                 /\ lastTask' = applied(FALSE)
           /\ lastChannel' = NoChannel
           /\ UNCHANGED << texRes, eyePosScale >>
        \/ /\ task.kind = "texRes"
           /\ texRes' = task.value
           /\ Commit(RendererState)
           /\ lastBuild' = NoBuild /\ lastChannel' = NoChannel
           /\ lastTask' = applied(FALSE)
           /\ UNCHANGED << lastGood, eyePosScale >>
        \/ /\ task.kind \in {"eyePosScale", "resetPosScale"}
           /\ eyePosScale' = task.value
           /\ Commit(RendererState)
           /\ lastBuild' = NoBuild /\ lastChannel' = NoChannel
           /\ lastTask' = applied(FALSE)
           /\ UNCHANGED << lastGood, texRes >>
        \/ /\ task.kind = "position"
           /\ Commit([RendererState EXCEPT !.position = @ + task.value])
           /\ lastBuild' = NoBuild /\ lastChannel' = NoChannel
           /\ lastTask' = applied(FALSE)
           /\ UNCHANGED << lastGood, texRes, eyePosScale >>
        \/ /\ task.kind = "restart"
           /\ Commit([RendererState EXCEPT !.startTime = now])
           /\ lastBuild' = NoBuild /\ lastChannel' = NoChannel
           /\ lastTask' = applied(FALSE)
           /\ UNCHANGED << lastGood, texRes, eyePosScale >>
  /\ batch' = Tail(batch)
  /\ lastRender' = NoRender
  /\ UNCHANGED << now, pcShader, tasks, pcFrame >>
  /\ UNCHANGED << uiTexture, textureTrash, textureDeleteQueue, textureLock, renderLock,
                  uiVisible, savedEyePosScale, lastUiTexture, lastUiSync,
                  currentUiTexture, renderTemp, pcRender, timerTemp, pcUi, locks,
                  nextFence, fenceDone, nPublished, fresh, published, retireLog,
                  drainLog, releaseLog, lastFrame >>
  /\ UNCHANGED fetchVars

\* perEyeRender: with the frame's tasks applied, the shader is drawn at
\* renderSize() by renderShadertoy, which runs uniformLambdas.
perEyeRender ==
  /\ pcShader = "running"
  /\ pcFrame = "tasks"
  /\ batch = << >>
  /\ pcFrame' = "start"
  /\ lastRender' = [ran |-> TRUE, program |-> shadertoyProgram.id,
                    calls |-> IF shadertoyProgram.id = 0 THEN << >>
                              ELSE runLambdas(uniformLambdas, channels)]
  /\ lastBuild' = NoBuild
  /\ lastChannel' = NoChannel
  /\ lastTask' = NoTask
  /\ UNCHANGED << canonicalUrlMap, textureCache, channels, channelSources, vrMode,
                  startTime, uniformLambdas, position, skybox, vertexShader,
                  fragmentShader, shadertoyProgram, livePrograms, nextTexture, now,
                  pcShader, lastGood, texRes, tasks, batch >>
  /\ UNCHANGED << handoffVars, fetchVars >>

\* ------------------------------------------------------------ shutdown
\* What main's shutdown steps leave alone.
ShutdownFrame ==
  /\ UNCHANGED << uiTexture, textureTrash, textureDeleteQueue, textureLock, renderLock,
                  uiVisible, eyePosScale, savedEyePosScale, lastUiTexture, lastUiSync,
                  currentUiTexture, renderTemp, timerTemp, locks, nextFence, fenceDone,
                  nPublished, fresh, published, retireLog, drainLog, releaseLog,
                  lastFrame >>

\* onShutdown: QApplication::quit() ends app.exec(); main goes on to
\* riftRenderWidget->stop().
onShutdown ==
  /\ pcUi = "idle"
  /\ pcUi' = "stop"
  /\ UNCHANGED pcRender
  /\ ShutdownFrame
  /\ UNCHANGED << shaderVars, fetchVars >>

\* ShadertoyRenderer::stop(), the stop() of QRiftWindow: the render thread
\* applies the tasks still queued, ends after its frame, and stop() returns.
stop_join ==
  /\ pcUi = "stop"
  /\ pcRender = "frame"
  /\ tasks = << >> /\ batch = << >>
  /\ pcRender' = "stopped"
  /\ pcUi' = "deleteUi"
  /\ ShutdownFrame
  /\ UNCHANGED << shaderVars, fetchVars >>

\* ShadertoyWindow::stop after ShadertoyRenderer::stop(): delete uiWindow. The
\* QOffscreenUi and the textures it owns are destroyed.
stop ==
  /\ pcUi = "deleteUi"
  /\ pcUi' = "hooks"
  /\ UNCHANGED pcRender
  /\ ShutdownFrame
  /\ UNCHANGED << shaderVars, fetchVars >>

\* Platform::runShutdownHooks(): the hooks of ShadertoyRenderer::setup and of
\* the constructor of ShadertoyWindow reset the texture cache, the program, the
\* shaders and the geometry.
runShutdownHooks ==
  /\ pcUi = "hooks"
  /\ pcUi' = "done"
  /\ textureCache' = [u \in {} |-> NoTexture]
  /\ shadertoyProgram' = NoProgram
  /\ livePrograms' = {}
  /\ vertexShader' = FALSE
  /\ fragmentShader' = ""
  /\ skybox' = FALSE
  /\ UNCHANGED << canonicalUrlMap, channels, channelSources, vrMode, startTime,
                  uniformLambdas, position, nextTexture, now, pcShader, lastBuild,
                  lastGood, lastRender, lastChannel, queueVars >>
  /\ UNCHANGED pcRender
  /\ ShutdownFrame
  /\ UNCHANGED fetchVars

\* ------------------------------------------------------------ specification
UiNext ==
  \/ uiRender_begin
  \/ uiRender_end
  \/ \E textureId \in Handles : textureUpdated(textureId)
  \/ onTimer
  \/ onTimer_lock
  \/ onTimer_swap
  \/ onTimer_release
  \/ onToggleUi

RenderNext ==
  \/ perFrameRender_ui
  \/ perFrameRender_drain
  \/ perFrameRender_lock
  \/ perFrameRender_append
  \/ endFrame_lock
  \/ endFrame_unlock

Next ==
  \/ UiNext
  \/ RenderNext
  \/ gpuComplete

Spec == Init /\ [][Next]_vars

\* The hand-off with its scheduling: the render thread runs frame after frame
\* and gets the locks it waits for, every handler of the UI thread returns, the
\* timer fires again and again and gets textureLock, and the GPU completes
\* every fence.
Fairness ==
  /\ WF_vars(perFrameRender_ui)
  /\ WF_vars(perFrameRender_drain)
  /\ SF_vars(perFrameRender_lock)
  /\ WF_vars(perFrameRender_append)
  /\ SF_vars(endFrame_lock)
  /\ WF_vars(endFrame_unlock)
  /\ WF_vars(uiRender_end)
  /\ WF_vars(\E textureId \in Handles : textureUpdated(textureId))
  /\ SF_vars(onTimer)
  /\ SF_vars(onTimer_lock)
  /\ WF_vars(onTimer_swap)
  /\ WF_vars(onTimer_release)
  /\ WF_vars(gpuComplete)

SpecLive == Init /\ [][Next]_vars /\ Fairness

NextShader ==
  \/ setup
  \/ \E shaderSource \in Sources : shaderSourceChangedTask(shaderSource)
  \/ \E channelIndex \in 0 .. MaxChannelInput, channelType \in ChannelInputTypes,
        texturePath \in ChannelUrls :
        channelTextureChangedTask(channelIndex, channelType, texturePath)
  \/ \E shader \in Shaders : loadShaderTask(shader)
  \/ renderShadertoy
  \/ tick

SpecShader == Init /\ [][NextShader]_vars

\* The channels and the texture cache: the channel-change events also name a
\* file that cannot be loaded; shaders are built by loadShader only and the
\* time stands still.
NextChannel ==
  \/ setup
  \/ \E channelIndex \in 0 .. MaxChannelInput, channelType \in ChannelInputTypes,
        texturePath \in ChannelUrls \cup {MissingFile} :
        channelTextureChangedTask(channelIndex, channelType, texturePath)
  \/ \E shader \in Shaders \cup {BrokenShader} : loadShaderTask(shader)
  \/ renderShadertoy

SpecChannel == Init /\ [][NextChannel]_vars

\* The hand-off until the application quits, and the shutdown of main.
NextShutdown ==
  \/ UiNext
  \/ RenderNext
  \/ gpuComplete
  \/ onShutdown
  \/ stop_join
  \/ stop
  \/ runShutdownHooks

SpecShutdown == Init /\ [][NextShutdown]_vars

\* The task queue: the slots of the UI thread queue tasks, the render thread
\* applies them at the start of each frame.
TaskSources == {"syntaxError"}
TaskUrls == {MissingFile}

NextTasks ==
  \/ setup
  \/ \E scale \in Scales : onModifyTextureResolution(scale)
  \/ onModifyPositionScale(2)
  \/ onResetPositionScale
  \/ onRestartShader
  \/ onSixDofMotion(1)
  \/ \E shaderSource \in TaskSources : onShaderSourceChanged(shaderSource)
  \/ \E texturePath \in TaskUrls : onChannelTextureChanged(0, "TEXTURE", texturePath)
  \/ \E shader \in {sh \in Shaders : sh.fragmentSource = "immersive"} : loadShader(shader)
  \/ drainTasks
  \/ runTask
  \/ perEyeRender
  \/ tick

SpecTasks == Init /\ [][NextTasks]_vars

\* ================================================================ claims
\* The handles on their way from a drain to releaseTexture, oldest first.
Deletable == releaseLog \o timerTemp \o textureDeleteQueue \o renderTemp

\* C1: a handle the render thread consumed is released by onTimer only after
\* the fence pushed with it was reported signalled by the poll: every SyncPair
\* popped from textureTrash has a signalled fence, and the handles released,
\* swapped out, queued for deletion or just drained are exactly the popped ones.
C1_ReleaseAfterFence ==
  /\ \A i \in DOMAIN drainLog : drainLog[i][2] \in fenceDone
  /\ \A h \in Handles : Count(Deletable, h) = Count(Firsts(drainLog), h)

\* A consumed handle went through the trash and onTimer released it.
C1_Witness == releaseLog # << >> /\ locks[releaseLog[1]] = 0

\* C2: the exchange of perFrameRender returns 0 or a handle published before,
\* and never a handle it already returned unless that handle was published
\* again in between.
C2_ConsumeOnce ==
  lastFrame.got = 0 \/ (lastFrame.got \in published /\ lastFrame.gotFresh)

\* A handle was consumed, published again and consumed again.
C2_Witness ==
  /\ lastFrame.visible
  /\ lastFrame.got # 0
  /\ lastFrame.got = lastFrame.before

\* Where handle h is: retained, in the retirement queue, in the deletable queue.
PlacesOf(h) ==
  (IF lastUiTexture = h THEN {"retained"} ELSE {})
    \cup (IF h \in Range(Firsts(textureTrash)) THEN {"trash"} ELSE {})
    \cup (IF h \in Range(textureDeleteQueue) THEN {"deletable"} ELSE {})

\* C3: a handle is in at most one of lastUiTexture, textureTrash and
\* textureDeleteQueue, and at most once in textureTrash.
C3_OnePlace ==
  \A h \in Handles :
    /\ Cardinality(PlacesOf(h)) <= 1
    /\ Count(Firsts(textureTrash), h) <= 1

\* C4: a step removes a SyncPair from textureTrash exactly when it outputs that
\* pair's handle to the drain's temporary queue, it is the front pair, and the
\* drain does not end while the front pair's fence is signalled.
C4_DrainOutputsOnce ==
  [][ /\ Len(textureTrash') < Len(textureTrash) =>
           /\ textureTrash' = Tail(textureTrash)
           /\ renderTemp' = Append(renderTemp, Head(textureTrash)[1])
      /\ (pcRender = "drain" /\ renderTemp' # renderTemp) =>
           /\ textureTrash # << >>
           /\ textureTrash' = Tail(textureTrash)
           /\ renderTemp' = Append(renderTemp, Head(textureTrash)[1])
      /\ (pcRender = "drain" /\ pcRender' # "drain") =>
           (textureTrash = << >> \/ Head(textureTrash)[2] \notin fenceDone)
    ]_vars

\* A drain has output a retired handle and left a pending one in the queue.
C4_Witness ==
  /\ pcRender \in {"lock", "append"}
  /\ renderTemp # << >>
  /\ textureTrash # << >>

\* C5: the retirement queue is drained first in, first out, and the deletable
\* queue keeps that order: the pairs popped so far followed by the pairs still
\* queued are the pairs pushed, and the handles released, swapped out, queued
\* for deletion and just drained, in this order, are the handles popped.
C5_FifoOrder ==
  /\ drainLog \o textureTrash = retireLog
  /\ Deletable = Firsts(drainLog)

\* One drain found two fences signalled and output both handles.
C5_Witness ==
  /\ Len(renderTemp) >= 2
  /\ renderTemp[1] # renderTemp[2]

\* C6: a step of perFrameRender's UI block whose exchange returns 0 keeps
\* lastUiTexture, composites it and pushes nothing; lastUiTexture changes only
\* in a step whose exchange returns a handle, it becomes that handle, and the
\* handle retained before (if any) is the one pushed.
C6_KeepRetained ==
  [][ /\ (pcRender = "frame" /\ pcRender' = "drain" /\ uiVisible /\ uiTexture = 0) =>
           /\ lastUiTexture' = lastUiTexture
           /\ currentUiTexture' = lastUiTexture
           /\ textureTrash' = textureTrash
      /\ (pcRender = "frame" /\ pcRender' = "drain" /\ uiVisible /\ uiTexture # 0) =>
           /\ lastUiTexture' = uiTexture
           /\ currentUiTexture' = uiTexture
           /\ textureTrash' = IF lastUiTexture # 0
                                THEN Append(textureTrash, << lastUiTexture, lastUiSync >>)
                                ELSE textureTrash
      /\ lastUiTexture' # lastUiTexture =>
           (pcRender = "frame" /\ uiVisible /\ uiTexture # 0)
    ]_vars

\* A frame found the slot empty while a handle was retained.
C6_Witness ==
  /\ lastFrame.visible
  /\ lastFrame.got = 0
  /\ lastFrame.before # 0
  /\ lastFrame.drawn = lastFrame.before

\* A thread is waiting when none of its steps can be taken.
RenderWaiting == ~ENABLED RenderNext
UiWaiting == ~ENABLED UiNext

C8_FailedBuildKeepsProgram ==
  [][ /\ (lastBuild'.ran /\ ~lastBuild'.ok) =>
           /\ lastBuild'.signal[1] = "compileError"
           /\ lastBuild'.signal[2] # ""
           /\ shadertoyProgram' = shadertoyProgram
           /\ livePrograms' = livePrograms
           /\ lastGood' = lastGood
           /\ getActiveUniforms(shadertoyProgram') = getActiveUniforms(shadertoyProgram)
           /\ uniformLambdas' = uniformSequence(shadertoyProgram, channels')
           /\ (channels' = channels => uniformLambdas' = uniformLambdas)
      /\ lastRender'.ran =>
           /\ lastRender'.program = lastGood.id
           /\ shadertoyProgram = lastGood
    ]_vars

\* A build failed at the link, after another program than the first had become
\* current, and left an update sequence with a channel in it.
C8_Witness ==
  /\ lastBuild.ran
  /\ ~lastBuild.ok
  /\ lastBuild.signal = << "compileError", "link failed" >>
  /\ shadertoyProgram.source = "channels"
  /\ \E k \in DOMAIN uniformLambdas : uniformLambdas[k][1] = "iChannel"

\* C9: a step that ran a build which succeeded made a new program object
\* current, linked from the submitted source; the previous program is deleted
\* (the new one is the only program alive); the update sequence is the one of
\* the new program and the channels; startTime is the time of the build;
\* compileSuccess was emitted. This holds whatever the source, the source of
\* the current program included.
C9_SuccessfulBuildSwaps ==
  [][ (lastBuild'.ran /\ lastBuild'.ok) =>
        /\ lastBuild'.signal[1] = "compileSuccess"
        /\ shadertoyProgram'.id # 0
        /\ shadertoyProgram'.id \notin livePrograms
        /\ shadertoyProgram'.source = lastBuild'.source
        /\ fragmentShader' = lastBuild'.source
        /\ livePrograms' = {shadertoyProgram'.id}
        /\ uniformLambdas' = uniformSequence(shadertoyProgram', channels')
        /\ startTime' = now
    ]_vars

\* The source of the current program was submitted again, later, and built.
C9_Witness ==
  /\ lastBuild.ran
  /\ lastBuild.ok
  /\ lastBuild.same
  /\ now > 0
  /\ startTime = now

\* C10: once setup has built the first program, the current program is
\* non-empty, it is the only program alive, and it is the program the latest
\* successful build made.
C10_OneCurrentProgram ==
  pcShader = "running" =>
    /\ shadertoyProgram.id # 0
    /\ livePrograms = {shadertoyProgram.id}
    /\ shadertoyProgram = lastGood

\* A build failed after a channel was changed and a program other than the
\* first had been built.
C10_Witness ==
  /\ pcShader = "running"
  /\ lastBuild.ran
  /\ ~lastBuild.ok
  /\ lastBuild.source = "syntaxError"
  /\ shadertoyProgram.source = "immersive"
  /\ channelSources[0] = PresetCubemap

\* C11: a channel-change task whose identifier is the one recorded for the
\* channel changes no channel, no recorded identifier and no cache entry and
\* loads no texture, whatever the kind it names; every channel-change task
\* leaves its identifier recorded for the channel and loads at most one
\* texture, so the second of two identical calls loads nothing.
C11_SameIdentifierNoOp ==
  [][ /\ (lastChannel'.ran /\ lastChannel'.same) =>
           /\ channels' = channels
           /\ channelSources' = channelSources
           /\ textureCache' = textureCache
           /\ nextTexture' = nextTexture
      /\ lastChannel'.ran =>
           /\ channelSources'[lastChannel'.channel] = lastChannel'.source
           /\ nextTexture' \in {nextTexture, nextTexture + 1}
    ]_vars

\* A channel set as a texture was set again with the same identifier and
\* another kind, and kept its target.
C11_Witness ==
  /\ lastChannel.ran
  /\ lastChannel.same
  /\ lastChannel.source = "preset://tex/00"
  /\ lastChannel.type = "CUBEMAP"
  /\ channels[lastChannel.channel] = [target |-> "_2D", texture |-> 1]

\* C12: a channel-change task with the empty identifier on a channel that
\* holds a texture leaves the channel without texture, with target _2D and
\* the empty identifier recorded, and changes no other channel.
C12_EmptyIdentifierClears ==
  [][ (lastChannel'.ran /\ lastChannel'.source = NoUrl /\ lastChannel'.held # NoTexture) =>
        /\ channels'[lastChannel'.channel] = [target |-> "_2D", texture |-> NoTexture]
        /\ channelSources'[lastChannel'.channel] = NoUrl
        /\ \A i \in Channels \ {lastChannel'.channel} :
             /\ channels'[i] = channels[i]
             /\ channelSources'[i] = channelSources[i]
    ]_vars

\* A channel holding the cubemap was cleared while another channel held a
\* texture.
C12_Witness ==
  /\ lastChannel.ran
  /\ lastChannel.source = NoUrl
  /\ lastChannel.held = 2
  /\ channels[lastChannel.channel].texture = NoTexture
  /\ \E i \in Channels : channels[i].texture # NoTexture

\* C13 as stated: a channel-change task of kind VIDEO or AUDIO with a
\* non-empty identifier throws nothing, leaves the channel without texture
\* and loads and caches nothing.
C13_UnsupportedKindEmpties ==
  [][ ( /\ lastChannel'.ran
        /\ lastChannel'.type \in {"VIDEO", "AUDIO"}
        /\ lastChannel'.source # NoUrl ) =>
        /\ ~lastChannel'.thrown
        /\ channels'[lastChannel'.channel].texture = NoTexture
        /\ textureCache' = textureCache
        /\ nextTexture' = nextTexture
    ]_vars

\* C13 amended: a channel-change task of kind VIDEO or AUDIO with a non-empty
\* identifier throws nothing and loads and caches nothing; when the identifier
\* is not the one recorded for the channel, the channel is left without
\* texture and the identifier is recorded; when it is the one recorded, the
\* channel keeps what it holds.
C13_UnsupportedKindNoLoad ==
  [][ ( /\ lastChannel'.ran
        /\ lastChannel'.type \in {"VIDEO", "AUDIO"}
        /\ lastChannel'.source # NoUrl ) =>
        /\ ~lastChannel'.thrown
        /\ textureCache' = textureCache
        /\ nextTexture' = nextTexture
        /\ channelSources'[lastChannel'.channel] = lastChannel'.source
        /\ channels'[lastChannel'.channel].texture =
             (IF lastChannel'.same THEN lastChannel'.held ELSE NoTexture)
    ]_vars

\* A channel that held a texture was set to a video of another identifier and
\* holds no texture.
C13_Witness ==
  /\ lastChannel.ran
  /\ lastChannel.type = "VIDEO"
  /\ lastChannel.source = PresetCubemap
  /\ ~lastChannel.same
  /\ lastChannel.held = 1
  /\ channels[lastChannel.channel].texture = NoTexture

\* The identifiers loadTexture is called with or could be called with.
Identifiers ==
  ChannelUrls \cup {MissingFile, UserFile, PresetTexture, PresetCubemap}
    \cup DOMAIN canonicalUrlMap \cup DOMAIN textureCache

\* The number of times the body of loadTexture's while loop runs for url, up
\* to `most`.
RECURSIVE aliasHops(_, _, _)
aliasHops(map, url, most) ==
  IF url \notin DOMAIN map \/ most = 0 THEN 0
  ELSE 1 + aliasHops(map, map[url], most - 1)

C15_AliasEquivalence ==
  pcShader # "setup" =>
    \A preset \in {PresetTexture, PresetCubemap} : \A alias \in AliasesOf(preset) :
      LET byAlias == loadTexture(RendererState, alias, "throws")
          thenPreset == loadTexture(byAlias.st, preset, "throws")
          byPreset == loadTexture(RendererState, preset, "throws")
          thenAlias == loadTexture(byPreset.st, alias, "throws")
      IN /\ byAlias.texture # NoTexture
         /\ byAlias.texture = byPreset.texture
         /\ thenPreset.texture = byAlias.texture
         /\ thenAlias.texture = byPreset.texture
         /\ \A r \in {byAlias, thenPreset, byPreset, thenAlias} :
              ~r.thrown /\ r.st.textureCache = textureCache

\* One channel was set by a legacy identifier of the cubemap, another by its
\* qrc: url, and both hold the same texture.
C15_Witness ==
  /\ channelSources[0] = "/presets/cube00_0.png"
  /\ channelSources[1] = PresetCubemap
  /\ channels[0].texture = channels[1].texture
  /\ channels[0].texture # NoTexture

\* C16: while the renderer runs, every step keeps every entry of textureCache
\* with its texture, and loadTexture of an identifier that has an entry
\* returns the entry's texture and loads nothing.
C16_CacheKeepsEntries ==
  [][ pcShader = "running" =>
        /\ \A url \in DOMAIN textureCache :
             /\ url \in DOMAIN textureCache'
             /\ textureCache'[url] = textureCache[url]
        /\ \A url \in DOMAIN textureCache :
             LET again == loadTexture(RendererState, url, "returnsTexture")
             IN /\ again.texture = textureCache[url]
                /\ again.st.textureCache = textureCache
                /\ again.st.nextTexture = nextTexture
    ]_vars

\* A channel was set to an identifier whose texture an earlier call had made
\* and cached, and holds that texture.
C16_Witness ==
  /\ lastChannel.ran
  /\ ~lastChannel.same
  /\ lastChannel.cached
  /\ lastChannel.source = MissingFile
  /\ channels[lastChannel.channel].texture = textureCache[MissingFile]
  /\ textureCache[MissingFile] >= 3
  /\ UserFile \in DOMAIN textureCache

\* The channels uniformLambdas has a binding action for.
BoundChannels ==
  { uniformLambdas[k][2] : k \in { j \in DOMAIN uniformLambdas :
                                     uniformLambdas[j][1] = "iChannel" } }

\* C17: in a frame, every channel with a binding action has a target that is
\* the kind of its texture and the kind of the sampler the current program's
\* header declares for it. (The binding action binds whenever the channel has
\* a texture; it compares nothing and reports nothing.)
C17_TargetMatchesSampler ==
  lastRender.ran =>
    \A i \in BoundChannels :
      /\ channels[i].target = TextureKind(channels[i].texture)
      /\ shadertoyProgram.header[i] =
           (IF channels[i].target = "CubeMap" THEN "Cube" ELSE "2D")

\* C18: a channel-change task that has to load a file which cannot be opened
\* or decoded ends without an exception leaving the task, the render thread
\* goes on, the channel holds no texture afterwards, and textureCache has no
\* entry with a null texture for the identifier.
C18_FailedLoadRecovers ==
  [][ ( /\ lastChannel'.ran
        /\ lastChannel'.source = MissingFile
        /\ lastChannel'.type \in {"TEXTURE", "CUBEMAP"}
        /\ ~lastChannel'.same
        /\ ~lastChannel'.cached ) =>
        /\ ~lastChannel'.thrown
        /\ pcShader' = "running"
        /\ channels'[lastChannel'.channel].texture = NoTexture
        /\ (MissingFile \in DOMAIN textureCache' => textureCache'[MissingFile] # NoTexture)
    ]_vars

\* The positions of uniformLambdas that hold an action for the uniform `name`
\* (slot -1) or a binding action for channel `slot`.
ActionsFor(name, slot) ==
  { k \in DOMAIN uniformLambdas : uniformLambdas[k] = << name, slot >> }

\* The channels that hold a texture.
Populated == { i \in Channels : channels[i].texture # NoTexture }

\* C19: while the renderer runs, the update sequence of a program without the
\* uniform iPosition has no iPosition action, and the update sequence of a
\* program in which the four channel uniforms are active has exactly one
\* binding action for each channel that holds a texture and no other binding
\* action.
C19_SequenceFollowsProgram ==
  pcShader = "running" =>
    /\ "iPosition" \notin getActiveUniforms(shadertoyProgram) =>
         ActionsFor("iPosition", -1) = {}
    /\ (\A i \in Channels : UNIFORM_CHANNELS(i) \in getActiveUniforms(shadertoyProgram)) =>
         /\ \A i \in Populated : Cardinality(ActionsFor("iChannel", i)) = 1
         /\ \A i \in Channels \ Populated : ActionsFor("iChannel", i) = {}
         /\ Cardinality({ k \in DOMAIN uniformLambdas : uniformLambdas[k][1] = "iChannel" })
              = Cardinality(Populated)

\* The current program has the four channel uniforms active and two of the
\* channels hold a texture.
C19_Witness ==
  /\ pcShader = "running"
  /\ \A i \in Channels : UNIFORM_CHANNELS(i) \in getActiveUniforms(shadertoyProgram)
  /\ Cardinality(Populated) = 2
  /\ Cardinality({ k \in DOMAIN uniformLambdas : uniformLambdas[k][1] = "iChannel" }) = 2

\* C20 as stated: while the renderer runs, uniformLambdas has exactly one
\* action for each of iGlobalTime, iResolution, iPosition, iChannel0..3 that is
\* active in the current program, none for a name that is not, and nothing
\* else.
C20_OneActionPerActiveName ==
  pcShader = "running" =>
    LET active == getActiveUniforms(shadertoyProgram)
    IN /\ \A name \in {"iGlobalTime", "iResolution", "iPosition"} :
            Cardinality(ActionsFor(name, -1)) = (IF name \in active THEN 1 ELSE 0)
       /\ \A i \in Channels :
            Cardinality(ActionsFor("iChannel", i)) =
              (IF UNIFORM_CHANNELS(i) \in active THEN 1 ELSE 0)
       /\ Len(uniformLambdas) =
            Cardinality(active \cap {"iGlobalTime", "iResolution", "iPosition"})
              + Cardinality({ i \in Channels : UNIFORM_CHANNELS(i) \in active })

\* C20 amended: while the renderer runs, uniformLambdas has exactly one action
\* for each of iGlobalTime, iResolution, iPosition that is active in the
\* current program, exactly one binding action for each channel whose uniform
\* is active and which holds a texture, and nothing else: no action for a name
\* that is not active or a channel without texture, and no action left from an
\* earlier rebuild.
C20_OneActionPerBoundName ==
  pcShader = "running" =>
    LET active == getActiveUniforms(shadertoyProgram)
        bound == { i \in Populated : UNIFORM_CHANNELS(i) \in active }
    IN /\ \A name \in {"iGlobalTime", "iResolution", "iPosition"} :
            Cardinality(ActionsFor(name, -1)) = (IF name \in active THEN 1 ELSE 0)
       /\ \A i \in Channels :
            Cardinality(ActionsFor("iChannel", i)) = (IF i \in bound THEN 1 ELSE 0)
       /\ Len(uniformLambdas) =
            Cardinality(active \cap {"iGlobalTime", "iResolution", "iPosition"})
              + Cardinality(bound)

\* A channel whose uniform is active was cleared, and the sequence rebuilt by
\* the task has the action of the time and of the other channel only.
C20_Witness ==
  /\ lastChannel.ran
  /\ lastChannel.source = NoUrl
  /\ lastChannel.held # NoTexture
  /\ shadertoyProgram.source = "channels"
  /\ uniformLambdas = << << "iGlobalTime", -1 >>, << "iChannel", 1 >> >>

\* The place of an action in the order time, resolution, viewer position,
\* channel 0, channel 1, channel 2, channel 3.
OrderOf(action) ==
  CASE action[1] = "iGlobalTime" -> 0
    [] action[1] = "iResolution" -> 1
    [] action[1] = "iPosition" -> 2
    [] OTHER -> 3 + action[2]

\* C21: the actions of uniformLambdas stand in the order time, resolution,
\* viewer position, channel 0..3, and a binding action of channel i first
\* selects texture unit i and then binds the texture of channels[i] to the
\* target of channels[i].
C21_SequenceOrder ==
  pcShader = "running" =>
    /\ \A j, k \in DOMAIN uniformLambdas :
         j < k => OrderOf(uniformLambdas[j]) < OrderOf(uniformLambdas[k])
    /\ \A i \in BoundChannels :
         bindChannel(channels, i) =
           << << "Active", i >>, << "Bind", channels[i].texture, channels[i].target >> >>

\* The sequence of a program that uses the resolution, the viewer position and
\* the channels, with channels 0 and 2 holding a texture.
C21_Witness ==
  /\ pcShader = "running"
  /\ uniformLambdas = << << "iResolution", -1 >>, << "iPosition", -1 >>,
                         << "iChannel", 0 >>, << "iChannel", 2 >> >>

\* C22: texRes, the scale renderSize() applies to the texture size, is at
\* least 0.1 and at most 1.0 in every state, whatever factors the scale-change
\* requests carry and however the requests interleave with the frames applying
\* the queued tasks.
C22_ResolutionScaleInRange ==
  /\ texRes \in MinRes .. MaxRes
  /\ \A k \in DOMAIN Pending :
       Pending[k].kind = "texRes" => Pending[k].value \in MinRes .. MaxRes

\* A frame applied a request with a negative factor: texRes is 0.1, and another
\* request is queued.
C22_Witness ==
  /\ lastTask.ran
  /\ lastTask.task.kind = "texRes"
  /\ texRes = MinRes
  /\ \E k \in DOMAIN Pending : Pending[k].kind = "texRes" /\ Pending[k].value = 4 * MinRes

\* C23: when main destroys the first GPU objects (delete uiWindow, then the
\* shutdown hooks), no task is queued, textureTrash and textureDeleteQueue are
\* empty, and every UI texture locked at publish has been released: the lock
\* count of every handle is 0, also of the handle the render thread retained
\* and of the handle left in uiTexture.
C23_ShutdownReleasesAll ==
  pcUi \in {"deleteUi", "hooks", "done"} =>
    /\ Pending = << >>
    /\ textureTrash = << >>
    /\ textureDeleteQueue = << >>
    /\ renderTemp = << >> /\ timerTemp = << >>
    /\ \A h \in Handles : locks[h] = 0

\* C24: the tasks the UI thread queued are applied by the render thread at the
\* start of a frame, oldest first: the queue only grows at its end, and it
\* only shrinks by the frame applying its head, with the effect of that task's
\* kind. The uniform actions of a frame run only once the frame's batch is
\* empty. Text, slots, resolution scale, position and time origin of a running
\* renderer change in no other step. After every task, also one whose build
\* failed or that threw, the frame goes on with the rest of its batch.
C24_Applied(task) ==
  /\ task.kind = "shaderSource" =>
       lastBuild'.ran /\ lastBuild'.source = task.source
  /\ task.kind = "channelTexture" =>
       /\ lastChannel'.ran /\ lastChannel'.channel = task.channel
       /\ lastChannel'.source = task.source
  /\ task.kind = "loadShader" =>
       lastBuild'.ran /\ lastBuild'.source = task.source
  /\ task.kind = "texRes" => texRes' = task.value
  /\ task.kind \in {"eyePosScale", "resetPosScale"} => eyePosScale' = task.value
  /\ task.kind = "position" => position' = position + task.value
  /\ task.kind = "restart" => startTime' = now

C25_BindingsMatchSlots ==
  lastRender.ran =>
    BoundChannels =
      { i \in Populated : UNIFORM_CHANNELS(i) \in getActiveUniforms(shadertoyProgram) }

\* A step of the running renderer in which updateUniforms did not run: no
\* build, and no channel-change task that came to its end.
C26_NoRebuild ==
  /\ pcShader = "running"
  /\ ~lastBuild'.ran
  /\ ~(lastChannel'.ran /\ ~lastChannel'.thrown)

C27_FailedBuildRetains ==
  /\ [][ (lastBuild'.ran /\ ~lastBuild'.ok /\ channelSources' = channelSources) =>
           /\ vrMode' = vrMode
           /\ position' = position
           /\ startTime' = startTime
           /\ channels' = channels
       ]_vars
  /\ [](pcShader = "running" => vrMode = SourceInfo(shadertoyProgram.source).vr)

\* C28: the first part of a frame that starts while the UI is hidden leaves
\* the slot uiTexture, the retained handle and its fence, textureTrash and the
\* fence counter as they are and draws no UI texture. Every frame, hidden or
\* visible, goes on to the drain loop, and the drain loop ends only with
\* textureTrash empty or the fence of its front handle not signalled.
C28_HiddenFrameSkipsUi ==
  [][ /\ (pcRender = "frame" /\ pcRender' # "frame") =>
           /\ pcRender' = "drain"
           /\ lastFrame'.ran /\ lastFrame'.visible = uiVisible
           /\ ~uiVisible =>
                /\ uiTexture' = uiTexture
                /\ lastUiTexture' = lastUiTexture
                /\ lastUiSync' = lastUiSync
                /\ textureTrash' = textureTrash
                /\ retireLog' = retireLog
                /\ nextFence' = nextFence
                /\ lastFrame'.drawn = 0
      /\ (pcRender = "drain" /\ pcRender' # "drain") =>
           \/ textureTrash' = << >>
           \/ Head(textureTrash')[2] \notin fenceDone
    ]_vars

\* The drain loop of a frame that started while the UI was hidden and a handle
\* was waiting in the slot has moved a handle out of textureTrash.
C28_Witness ==
  /\ lastFrame.ran /\ ~lastFrame.visible
  /\ ~uiVisible
  /\ uiTexture # 0
  /\ pcRender \in {"drain", "lock", "append"}
  /\ renderTemp # << >>

\* C29: with frames, timer and fences going on, every handle pushed to
\* textureTrash is released by onTimer: whenever k handles have been retired,
\* eventually k handles have been released.
C29_RetiredEventuallyReleased ==
  \A k \in 1 .. MaxPublish :
    (Len(retireLog) >= k) ~> (Len(releaseLog) >= k)

\* Two handles were retired, and both have been released.
C29_Witness ==
  /\ Len(retireLog) = 2
  /\ Len(releaseLog) = 2
  /\ pcUi = "idle" /\ pcRender = "frame"

\* The handles the render thread has appended to textureDeleteQueue, in the
\* order of the appends: the handles drained but for those still in the
\* temporary queue of the frame.
C30_Appended ==
  SubSeq(Firsts(drainLog), 1, Len(drainLog) - Len(renderTemp))

\* C30: the handles appended to textureDeleteQueue are, in the order of the
\* appends, the handles released, the handles onTimer swapped out and the
\* handles still queued, so none is lost or released twice; the two threads
\* are never both inside their blocks on the queue. textureDeleteQueue changes
\* only in a step of the thread that holds textureLock: the render thread
\* appends its temporary queue at the end, onTimer takes the whole queue out.
\* Handles are released only by onTimer, after the lock, in the order it
\* swapped them out, each taking one lock count off its handle.
C30_DeletableQueueHandOff ==
  /\ [](/\ releaseLog \o timerTemp \o textureDeleteQueue = C30_Appended
        /\ ~(pcRender = "append" /\ pcUi = "timerSwap")
        /\ (pcRender = "append") = (textureLock = "render")
        /\ (pcUi = "timerSwap") = (textureLock = "ui"))
  /\ [][ /\ textureDeleteQueue' # textureDeleteQueue =>
             \/ /\ pcRender = "append" /\ textureLock = "render"
                /\ pcRender' # "append" /\ textureLock' = "free"
                /\ textureDeleteQueue' = textureDeleteQueue \o renderTemp
                /\ UNCHANGED << timerTemp, releaseLog, locks >>
             \/ /\ pcUi = "timerSwap" /\ textureLock = "ui"
                /\ pcUi' # "timerSwap" /\ textureLock' = "free"
                /\ timerTemp' = textureDeleteQueue
                /\ textureDeleteQueue' = << >>
                /\ UNCHANGED << renderTemp, releaseLog, locks >>
         /\ releaseLog' # releaseLog =>
             /\ pcUi = "timerRelease" /\ textureLock # "ui"
             /\ releaseLog' = releaseLog \o timerTemp
             /\ timerTemp' = << >>
             /\ \A h \in Handles : locks'[h] = locks[h] - Count(timerTemp, h)
             /\ UNCHANGED textureDeleteQueue
       ]_vars

\* onTimer has swapped a handle out and not yet released it, and the render
\* thread has appended another handle to the queue meanwhile.
C30_Witness ==
  /\ pcUi = "timerRelease"
  /\ timerTemp # << >>
  /\ textureDeleteQueue # << >>

\* The places that hold handles, in the order a handle passes them: the slot,
\* the handle the render thread retains, textureTrash, the temporary queue of
\* the frame, textureDeleteQueue, the queue onTimer swapped out.
C31_Held ==
  (IF uiTexture # 0 THEN << uiTexture >> ELSE << >>)
    \o (IF lastUiTexture # 0 THEN << lastUiTexture >> ELSE << >>)
    \o Firsts(textureTrash) \o renderTemp \o textureDeleteQueue \o timerTemp

C33_Effective ==
  LET queued == { k \in DOMAIN Pending : Pending[k].kind = "texRes" }
  IN IF queued = {} THEN texRes
     ELSE Pending[CHOOSE k \in queued : \A j \in queued : j <= k].value

\* C33: scale-change requests compound. A request by the factor scale queues
\* the scale clamp(scale * r), where r is the scale the requests before it
\* lead to, also when the task of an earlier request is queued and not applied
\* yet: after the tasks are applied the scale is clamp(s2 * clamp(s1 * r)).
C33_ScaleRequestsCompound ==
  [][ \A scale \in Scales :
        onModifyTextureResolution(scale) =>
          tasks' = queueRenderThreadTask(tasks,
                     Task("texRes", 0, "TEXTURE", "", newRes(scale, C33_Effective)))
    ]_vars


\* The position scale: the slots that change it, the toggle of the UI and the
\* frames of the render thread.
NextPosScale ==
  \/ setup
  \/ onToggleUi
  \/ onModifyPositionScale(2)
  \/ onResetPositionScale
  \/ drainTasks
  \/ runTask
  \/ perEyeRender

SpecPosScale == Init /\ [][NextPosScale]_vars

\* C34: while the UI is visible the position scale is 0: every frame drawn
\* with the UI visible is drawn with eyePosScale = 0, whatever toggle, modify
\* and reset events came before and whenever their tasks were applied.
C34_VisibleUiZeroScale ==
  [][ (pcFrame = "tasks" /\ pcFrame' = "start" /\ uiVisible) => eyePosScale = 0 ]_vars


\* The fetcher: the replies of the network and the timer.
NextFetcher ==
  \/ \E shaders \in ShaderLists : \E cached \in SUBSET ShaderFiles :
       fetchNetworkShaders_finished(shaders, cached)
  \/ fetchNextShader
  \/ \E path \in ShaderFiles : fetchUrl_finished(path)

SpecFetcher == Init /\ [][NextFetcher]_vars

\* C35 as stated: at most 5 requests are in flight, a shader is taken from the
\* queue only while at most 4 are outstanding, the counter is never negative
\* and no shader id is dequeued twice.
C35_AtMostFiveInFlight ==
  /\ currentNetworkRequests \in 0 .. 5
  /\ \A k \in DOMAIN dequeued : dequeued[k].outstanding <= 4
  /\ \A j, k \in DOMAIN dequeued : dequeued[j].id = dequeued[k].id => j = k

\* C35: the shader fetcher keeps at most 6 network requests in flight: a shader
\* is taken from the queue only while at most 4 requests are outstanding, and
\* it takes up to two requests. The in-flight counter is never negative and
\* counts the requests that have not finished, each queued shader id is
\* dequeued at most once, and the timer is stopped by the fetchNextShader that
\* leaves the queue empty.
C35_FetcherBounded ==
  /\ [](/\ currentNetworkRequests \in 0 .. 6
        /\ currentNetworkRequests = Cardinality(requests)
        /\ \A k \in DOMAIN dequeued : dequeued[k].outstanding <= 4
        /\ \A j, k \in DOMAIN dequeued : dequeued[j].id = dequeued[k].id => j = k
        /\ \A k \in DOMAIN shadersToFetch :
             \A j \in DOMAIN dequeued : dequeued[j].id # shadersToFetch[k])
  /\ [][ (fetchTimer /\ currentNetworkRequests' >= currentNetworkRequests
            /\ shadersToFetch' = << >>) => ~fetchTimer' ]_vars

C35_Witness ==
  /\ currentNetworkRequests = 6
  /\ Len(dequeued) = 3
  /\ shadersToFetch # << >>
  /\ fetchTimer

====
